---------------------------- MODULE Spec2Model ----------------------------
(***************************************************************************)
(* Model of the concurrent upload orchestrator of slimgem:                 *)
(*   utils/helpers.py        upload_with_retry, the in-flight guard        *)
(*                           (_active_uploads, _upload_lock) and the       *)
(*                           status tracker (_upload_statuses,             *)
(*                           _status_lock)                                 *)
(*   upload_to_FileStore.py  upload_file_to_store, upload_multiple_files   *)
(*   config.py               retry configuration                           *)
(*                                                                         *)
(* Text is modelled as a sequence of word tokens: "in" is contiguous       *)
(* sub-sequence, lower() maps every token to its lower-case form, slices   *)
(* count tokens.                                                           *)
(***************************************************************************)
EXTENDS Integers, Sequences, FiniteSets, TLC

\* ------------------------------------------------------------------ bounds
\* number of files of the batch (len(file_paths))
MaxFiles == 2
\* number of distinct file paths the batch may draw from
NumPaths == 2
\* largest pool size tried (max_workers ranges over 1..MaxWorkers)
MaxWorkers == 2

\* --------------------------------------------------------------- constants
\* config.py: MAX_UPLOAD_RETRIES
MAX_UPLOAD_RETRIES == 3

Paths == 1..NumPaths
store_name == "fileSearchStores/s1"
\* upload_multiple_files always passes use_status_tracker=True
use_status_tracker == TRUE
NoOwner == 0

\* UploadStatus enum
PENDING == "pending"
UPLOADING == "uploading"
RETRYING == "retrying"
COMPLETED == "completed"
FAILED == "failed"
UploadStatus == {PENDING, UPLOADING, RETRYING, COMPLETED, FAILED}

\* -------------------------------------------------------------------- text
Min(a, b) == IF a <= b THEN a ELSE b

\* str.lower() on one token
LowerTok(w) ==
    CASE w = "Service" -> "service"
      [] w = "Unavailable" -> "unavailable"
      [] w = "Already" -> "already"
      [] w = "Been" -> "been"
      [] w = "Terminated" -> "terminated"
      [] w = "Operation" -> "operation"
      [] w = "Error" -> "error"
      [] w = "Upload" -> "upload"
      [] w = "PERMISSION_DENIED" -> "permission_denied"
      [] OTHER -> w

\* str.lower()
Lower(s) == [i \in 1..Len(s) |-> LowerTok(s[i])]

\* "p in s"
Contains(s, p) ==
    \E i \in 0..(Len(s) - Len(p)) : SubSeq(s, i + 1, i + Len(p)) = p

\* s[:n]
Slice(s, n) == SubSeq(s, 1, Min(n, Len(s)))

\* str(n) for the small numbers that occur in messages
NumTok(n) ==
    CASE n = 0 -> "0" [] n = 1 -> "1" [] n = 2 -> "2" [] n = 3 -> "3"
      [] n = 4 -> "4" [] n = 5 -> "5" [] OTHER -> "n"

\* config.py: RETRYABLE_ERROR_PATTERNS
RETRYABLE_ERROR_PATTERNS ==
    { <<"already", "been", "terminated">>,
      <<"503">>,
      <<"service", "unavailable">>,
      <<"timeout">>,
      <<"deadline", "exceeded">>,
      <<"internal", "error">>,
      <<"temporarily", "unavailable">> }

\* mutant: every error raised by the upload call is retried
IsRetryable_always(error_str) == TRUE

\* any(err in error_str.lower() for err in RETRYABLE_ERROR_PATTERNS)
IsRetryable(error_str) ==
    \E err \in RETRYABLE_ERROR_PATTERNS : Contains(Lower(error_str), err)

\* mutant: a timeout of the polling is retried as well
IsTerminatedSession_timeout(message) ==
    \/ Contains(Lower(message), <<"already", "been", "terminated">>)
    \/ Contains(Lower(message), <<"timed", "out">>)

\* mutant: every failure reported by wait_for_operation is retried
IsTerminatedSession_always(message) == TRUE

\* "already been terminated" in message.lower()
IsTerminatedSession(message) ==
    Contains(Lower(message), <<"already", "been", "terminated">>)

\* error texts the collaborator produces (raised or carried by an operation)
E503 == <<"503", "Service", "Unavailable">>
ETerminated == <<"session", "has", "Already", "Been", "Terminated">>
EPermission == <<"PERMISSION_DENIED">>
CollaboratorErrors == {E503, ETerminated, EPermission}

\* wait_for_operation's failure messages
OperationFailed(e) == <<"Operation", "failed:">> \o e
PollError(e) == <<"Error", "checking", "operation", "status:">> \o e
OperationTimedOut ==
    <<"Operation", "timed", "out", "after", "300", "seconds.">>
WaitFailures ==
    {OperationFailed(e) : e \in CollaboratorErrors}
      \cup {PollError(e) : e \in CollaboratorErrors}
      \cup {OperationTimedOut}

DuplicateMessage ==
    <<"Upload", "already", "in", "progress", "for", "this", "file",
      "to", "this", "store">>
PrecheckMessage ==
    <<"Upload", "already", "in", "progress", "for", "this", "file">>
NoText == <<>>

\* ------------------------------------------------------------------- state
VARIABLES
    file_paths,        \* the list handed to upload_multiple_files
    max_workers,       \* pool size
    main_pc,           \* position of upload_multiple_files
    active_uploads,    \* _active_uploads
    upload_lock,       \* owner of _upload_lock (NoOwner when free)
    status_lock,       \* owner of _status_lock (NoOwner when free)
    upload_statuses,   \* _upload_statuses: path -> status record
    pc,                \* position of every task
    attempt,           \* upload_with_retry: attempt
    last_error,        \* upload_with_retry: last_error
    calls,             \* number of collaborator upload calls of the task
    sleeps,            \* number of backoff sleeps of the task
    ret,               \* what upload_with_retry hands to its caller
    future,            \* result of the task's future
    collected,         \* futures already yielded by as_completed
    successful,        \* upload_multiple_files: successful
    failed,            \* upload_multiple_files: failed
    batch_result,      \* the dictionary upload_multiple_files returns
    writer,            \* position of a task inside update_upload_status
    reader,            \* position of the main thread in the status functions
    written,           \* per path, the records handed to the status tracker
    backoff,           \* upload_with_retry: the values of the delay computation
    dedup,             \* get_deduplicated_files: its arguments and locals
    operation          \* upload_with_retry: operation, the handle to poll

vars == <<file_paths, max_workers, main_pc, active_uploads, upload_lock,
          status_lock, upload_statuses, pc, attempt, last_error, calls,
          sleeps, ret, future, collected, successful, failed, batch_result,
          writer, reader, written, backoff, dedup, operation>>

\* the state of the step-by-step view of the status tracker
svars == <<writer, reader, written, backoff, dedup>>

\* the state of the delay computation and of the duplicate detection
pvars == <<backoff, dedup>>

Tasks == 1..Len(file_paths)
PathOf(t) == file_paths[t]
\* upload_key = f"{store_name}:{file_path}"
upload_key(p) == <<store_name, p>>
KeyOf(t) == upload_key(PathOf(t))

\* no operation handle assigned yet
NoOperation == <<>>
NoRet == [kind |-> "none", success |-> FALSE, message |-> NoText]
NoFuture == [done |-> FALSE, success |-> FALSE, file_path |-> 0,
             text |-> NoText]
NoResult == [total |-> 0, successful |-> <<>>, failed |-> <<>>]

StatusRecord(s, a, m, msg) ==
    [status |-> s, attempt |-> a, max_retries |-> m, message |-> msg]

\* init_upload_status: the record a path starts with
PendingRecord == StatusRecord(PENDING, 0, 0, NoText)

\* mutant: an update creates the record it does not find
update_upload_status_creating(st, p, s, a, m, msg) ==
    [q \in DOMAIN st \cup {p} |->
        IF q = p THEN StatusRecord(s, a, m, msg) ELSE st[q]]

\* mutant: an update to FAILED is lost
update_upload_status_nofail(st, p, s, a, m, msg) ==
    IF p \in DOMAIN st /\ s # FAILED
    THEN [st EXCEPT ![p] = StatusRecord(s, a, m, msg)]
    ELSE st

\* mutant: attempt and max_retries are stored in each other's field
update_upload_status_swapped(st, p, s, a, m, msg) ==
    IF p \in DOMAIN st
    THEN [st EXCEPT ![p] = StatusRecord(s, m, a, msg)]
    ELSE st

\* update_upload_status: replaces the four fields of an existing record,
\* does nothing for a path without record
update_upload_status(st, p, s, a, m, msg) ==
    IF p \in DOMAIN st
    THEN [st EXCEPT ![p] = StatusRecord(s, a, m, msg)]
    ELSE st

\* get_upload_summary_stats
get_upload_summary_stats(st) ==
    [total |-> Cardinality(DOMAIN st),
     completed |-> Cardinality({p \in DOMAIN st : st[p].status = COMPLETED}),
     failed |-> Cardinality({p \in DOMAIN st : st[p].status = FAILED}),
     in_progress |-> Cardinality({p \in DOMAIN st :
                         st[p].status \in {UPLOADING, RETRYING}})]

\* records left by an earlier batch
StaleStatuses ==
    { [p \in {} |-> PendingRecord],
      [p \in {NumPaths} |-> StatusRecord(COMPLETED, 0, 0,
                                         <<"Upload", "successful">>)] }

Range(s) == {s[i] : i \in 1..Len(s)}

\* a task that is not inside update_upload_status
IdleWriter == [pc |-> "idle", update |-> PendingRecord, field |-> 0,
               count |-> 0]
\* no delay computed yet: attempt = 0 before the loop
NoBackoff == [initial_delay |-> 1, max_delay |-> 1, attempt |-> 0,
              delay |-> 0, previous |-> 0]
\* get_deduplicated_files not called
NoDedup == [pc |-> "none"]
NoStats == [total |-> 0, completed |-> 0, failed |-> 0, in_progress |-> 0]
\* the main thread before clear_upload_statuses
NoReader == [pc |-> "clear", i |-> 1, reads |-> 0, field |-> 0, todo |-> {},
             info |-> PendingRecord, stats |-> NoStats,
             seen |-> [path |-> 0, rec |-> PendingRecord]]

\* the state before upload_multiple_files is called with a list of n files
InitBatch(n) ==
    /\ file_paths \in [1..n -> Paths]
    /\ max_workers \in 1..MaxWorkers
    /\ main_pc = "clear"
    /\ active_uploads = {}
    /\ upload_lock = NoOwner
    /\ status_lock = NoOwner
    /\ upload_statuses \in StaleStatuses
    /\ pc = [t \in 1..n |-> "unsubmitted"]
    /\ attempt = [t \in 1..n |-> 0]
    /\ last_error = [t \in 1..n |-> NoText]
    /\ calls = [t \in 1..n |-> 0]
    /\ sleeps = [t \in 1..n |-> 0]
    /\ ret = [t \in 1..n |-> NoRet]
    /\ future = [t \in 1..n |-> NoFuture]
    /\ collected = {}
    /\ successful = <<>>
    /\ failed = <<>>
    /\ batch_result = NoResult
    /\ writer = [t \in 1..n |-> IdleWriter]
    /\ reader = NoReader
    /\ written = [p \in Paths |-> {}]
    /\ operation = [t \in 1..n |-> NoOperation]

InitUpload == InitBatch(MaxFiles)

Init ==
    /\ InitUpload
    /\ backoff = NoBackoff
    /\ dedup = NoDedup


\* --------------------------------------------------- upload_multiple_files
\* mutant: the records of the earlier batch are kept
ClearedStatuses_kept(st) == st

\* _upload_statuses.clear()
ClearedStatuses(st) == [p \in {} |-> PendingRecord]

\* clear_upload_statuses()
ClearStatuses ==
    /\ main_pc = "clear"
    /\ status_lock = NoOwner
    /\ upload_statuses' = ClearedStatuses(upload_statuses)
    /\ main_pc' = "init"
    /\ UNCHANGED <<svars, operation, file_paths, max_workers, active_uploads, upload_lock,
                   status_lock, pc, attempt, last_error, calls, sleeps, ret,
                   future, collected, successful, failed, batch_result>>

\* for file_path in file_paths: init_upload_status(file_path)
\* (no task exists yet, the loop is one step)
InitStatuses ==
    /\ main_pc = "init"
    /\ status_lock = NoOwner
    /\ upload_statuses' =
           [p \in DOMAIN upload_statuses \cup Range(file_paths) |->
               IF p \in Range(file_paths) THEN PendingRecord
               ELSE upload_statuses[p]]
    /\ main_pc' = "submit"
    /\ UNCHANGED <<svars, operation, file_paths, max_workers, active_uploads, upload_lock,
                   status_lock, pc, attempt, last_error, calls, sleeps, ret,
                   future, collected, successful, failed, batch_result>>

\* executor.submit(upload_file_to_store, ...) for the next file of the list
Submit(t) ==
    /\ main_pc = "submit"
    /\ pc[t] = "unsubmitted"
    /\ \A u \in Tasks : u < t => pc[u] # "unsubmitted"
    /\ pc' = [pc EXCEPT ![t] = "queued"]
    /\ main_pc' = IF t = Len(file_paths) THEN "collect" ELSE "submit"
    /\ UNCHANGED <<svars, operation, file_paths, max_workers, active_uploads, upload_lock,
                   status_lock, upload_statuses, attempt, last_error, calls,
                   sleeps, ret, future, collected, successful, failed,
                   batch_result>>

\* tasks a pool worker is executing
Running == {t \in Tasks : pc[t] \notin {"unsubmitted", "queued", "finished"}}

\* mutant: a thread is started for every submitted task
WorkerFree_unbounded(running) == TRUE

\* ThreadPoolExecutor(max_workers=max_workers): a queued task is taken when
\* fewer than max_workers tasks are being executed
WorkerFree(running) == Cardinality(running) < max_workers

\* a free worker of the ThreadPoolExecutor takes the oldest queued task and
\* enters upload_file_to_store (get_client, display name)
StartTask(t) ==
    /\ pc[t] = "queued"
    /\ \A u \in Tasks : u < t => pc[u] # "queued"
    /\ WorkerFree(Running)
    /\ pc' = [pc EXCEPT ![t] = "precheck"]
    /\ UNCHANGED <<svars, operation, file_paths, max_workers, main_pc, active_uploads,
                   upload_lock, status_lock, upload_statuses, attempt,
                   last_error, calls, sleeps, ret, future, collected,
                   successful, failed, batch_result>>

\* the dictionary upload_file_to_store returns
ResultDict(ok, p, text) ==
    [done |-> TRUE, success |-> ok, file_path |-> p, text |-> text]

\* mutant: the pre-check sees no upload in progress
is_upload_in_progress_idle(p) == FALSE

\* is_upload_in_progress
is_upload_in_progress(p) == upload_key(p) \in active_uploads

\* upload_file_to_store: the pre-check; on a free key the configuration is
\* built and upload_with_retry is entered
Precheck(t) ==
    /\ pc[t] = "precheck"
    /\ upload_lock = NoOwner
    /\ IF is_upload_in_progress(PathOf(t))
       THEN /\ future' = [future EXCEPT
                   ![t] = ResultDict(FALSE, PathOf(t), PrecheckMessage)]
            /\ pc' = [pc EXCEPT ![t] = "finished"]
       ELSE /\ pc' = [pc EXCEPT ![t] = "acquire"]
            /\ UNCHANGED future
    /\ UNCHANGED <<svars, operation, file_paths, max_workers, main_pc, active_uploads,
                   upload_lock, status_lock, upload_statuses, attempt,
                   last_error, calls, sleeps, ret, collected, successful,
                   failed, batch_result>>


\* ------------------------------------------------------- upload_with_retry
\* upload_file_to_store passes max_retries=MAX_UPLOAD_RETRIES
max_retries == MAX_UPLOAD_RETRIES

\* mutant: the membership test is dropped
KeyHeld_never(k) == FALSE

\* mutant: every request finds its key held
KeyHeld_always(k) == TRUE

\* mutant: the membership test is inverted
KeyHeld_inverted(k) == k \notin active_uploads

\* if upload_key in _active_uploads
KeyHeld(k) == k \in active_uploads

\* mutant: the key is not removed
Discard_nothing(S, k) == S

\* _active_uploads.discard(upload_key)
Discard(S, k) == S \ {k}

\* mutant: one attempt too many
AttemptAllowed_offbyone(a) == a <= max_retries + 1

\* while attempt <= max_retries / if attempt <= max_retries
AttemptAllowed(a) == a <= max_retries

\* mutant: the with block encloses the whole function
GuardLockAfter_kept(t, dup) == t

\* owner of _upload_lock after the test of the key: the with block ends
\* after _active_uploads.add, but is still open when the duplicate branch
\* calls update_upload_status
GuardLockAfter(t, dup) == IF dup THEN t ELSE NoOwner

\* with _upload_lock: the key is free and is added, or the key is held and
\* the duplicate branch is entered with _upload_lock still held
TryAcquire(t) ==
    /\ pc[t] = "acquire"
    /\ upload_lock = NoOwner
    /\ IF KeyHeld(KeyOf(t))
       THEN /\ pc' = [pc EXCEPT ![t] = "dup_status"]
            /\ UNCHANGED active_uploads
       ELSE /\ active_uploads' = active_uploads \cup {KeyOf(t)}
            /\ pc' = [pc EXCEPT ![t] = "mark"]
    /\ upload_lock' = GuardLockAfter(t, KeyHeld(KeyOf(t)))
    /\ UNCHANGED <<svars, operation, file_paths, max_workers, main_pc, status_lock,
                   upload_statuses, attempt, last_error, calls, sleeps, ret,
                   future, collected, successful, failed, batch_result>>

\* duplicate branch: update_upload_status takes _status_lock while
\* _upload_lock is held
DupLockStatus(t) ==
    /\ pc[t] = "dup_status"
    /\ status_lock = NoOwner
    /\ status_lock' = t
    /\ pc' = [pc EXCEPT ![t] = "dup_write"]
    /\ UNCHANGED <<svars, operation, file_paths, max_workers, main_pc, active_uploads,
                   upload_lock, upload_statuses, attempt, last_error, calls,
                   sleeps, ret, future, collected, successful, failed,
                   batch_result>>

\* duplicate branch: the record is set to FAILED, both locks are released
\* and upload_with_retry returns (False, "Upload already in progress ...");
\* upload_file_to_store turns it into its failure dictionary
DupReject(t) ==
    /\ pc[t] = "dup_write"
    /\ status_lock = t
    /\ upload_lock = t
    /\ upload_statuses' = update_upload_status(upload_statuses, PathOf(t),
                              FAILED, 0, 0, DuplicateMessage)
    /\ status_lock' = NoOwner
    /\ upload_lock' = NoOwner
    /\ ret' = [ret EXCEPT ![t] = [kind |-> "value", success |-> FALSE,
                                  message |-> DuplicateMessage]]
    /\ future' = [future EXCEPT
           ![t] = ResultDict(FALSE, PathOf(t), DuplicateMessage)]
    /\ pc' = [pc EXCEPT ![t] = "finished"]
    /\ UNCHANGED <<svars, operation, file_paths, max_workers, main_pc, active_uploads, attempt,
                   last_error, calls, sleeps, collected, successful, failed,
                   batch_result>>

\* f"Retrying after error: {last_error[:50]}..."
RetryingMessage(e) ==
    <<"Retrying", "after", "error:">> \o Slice(e, 50) \o <<"...">>

\* mutant: every attempt is announced as UPLOADING
AttemptStatus_uploading(a) == UPLOADING

\* the status an attempt is announced with: UPLOADING on the first attempt
\* (attempt == 0), RETRYING on a later one
AttemptStatus(a) == IF a = 0 THEN UPLOADING ELSE RETRYING

\* top of the loop body: the status of the attempt is written before the
\* upload call
MarkAttempt(t) ==
    /\ pc[t] = "mark"
    /\ status_lock = NoOwner
    /\ upload_statuses' =
           update_upload_status(upload_statuses, PathOf(t),
               AttemptStatus(attempt[t]), attempt[t], max_retries,
               IF attempt[t] = 0 THEN NoText
               ELSE RetryingMessage(last_error[t]))
    /\ pc' = [pc EXCEPT ![t] = "upload"]
    /\ UNCHANGED <<svars, operation, file_paths, max_workers, main_pc, active_uploads,
                   upload_lock, status_lock, attempt, last_error, calls,
                   sleeps, ret, future, collected, successful, failed,
                   batch_result>>

\* f"Upload failed after {max_retries + 1} attempts. Last error: {last_error}"
FinalMessage(e) ==
    <<"Upload", "failed", "after", NumTok(max_retries + 1), "attempts.",
      "Last", "error:">> \o e

\* mutant: the counter is not advanced
NextAttempt_stuck(a) == a

\* attempt += 1
NextAttempt(a) == a + 1

\* "If we get here, we need to retry": attempt += 1, then either the status
\* is set to RETRYING and the task sleeps, or the loop ends, the status is
\* set to FAILED and the failure is returned (through finally)
RetryOrGiveUp(t, e) ==
    LET a == NextAttempt(attempt[t]) IN
    /\ attempt' = [attempt EXCEPT ![t] = a]
    /\ last_error' = [last_error EXCEPT ![t] = e]
    /\ IF AttemptAllowed(a)
       THEN /\ upload_statuses' = update_upload_status(upload_statuses,
                   PathOf(t), RETRYING, a, max_retries, Slice(e, 80))
            /\ sleeps' = [sleeps EXCEPT ![t] = @ + 1]
            /\ pc' = [pc EXCEPT ![t] = "sleep"]
            /\ UNCHANGED ret
       ELSE /\ upload_statuses' = update_upload_status(upload_statuses,
                   PathOf(t), FAILED, max_retries + 1, max_retries,
                   FinalMessage(e))
            /\ ret' = [ret EXCEPT ![t] = [kind |-> "value",
                          success |-> FALSE, message |-> FinalMessage(e)]]
            /\ pc' = [pc EXCEPT ![t] = "finally"]
            /\ UNCHANGED sleeps

\* mutant: the upload call resumes the session of the first call
NewHandle_resumed(t, n) == <<t, 1>>

\* the operation the collaborator returns for the n-th upload call of task
\* t: a new one for every call
NewHandle(t, n) == <<t, n>>

\* operation = client.file_search_stores.upload_to_file_search_store(...):
\* the upload call returns an operation handle
UploadReturns(t) ==
    /\ pc[t] = "upload"
    /\ calls' = [calls EXCEPT ![t] = @ + 1]
    /\ operation' = [operation EXCEPT ![t] = NewHandle(t, calls[t] + 1)]
    /\ pc' = [pc EXCEPT ![t] = "poll"]
    /\ UNCHANGED <<svars, file_paths, max_workers, main_pc, active_uploads,
                   upload_lock, status_lock, upload_statuses, attempt,
                   last_error, sleeps, ret, future, collected, successful,
                   failed, batch_result>>

\* f"Upload failed: {error_str[:80]}" and f"Upload failed: {error_str}"
UploadFailedMessage(e) == <<"Upload", "failed:">> \o e

\* mutant: the handler raises the error again
FatalOutcome_reraise(e) ==
    [kind |-> "raise", success |-> FALSE, message |-> e]

\* return False, f"Upload failed: {error_str}", None
FatalOutcome(e) ==
    [kind |-> "value", success |-> FALSE, message |-> UploadFailedMessage(e)]

\* the upload call raises e: except Exception classifies it by
\* RETRYABLE_ERROR_PATTERNS
UploadRaises(t, e) ==
    /\ pc[t] = "upload"
    /\ status_lock = NoOwner
    /\ calls' = [calls EXCEPT ![t] = @ + 1]
    /\ IF IsRetryable(e)
       THEN RetryOrGiveUp(t, e)
       ELSE /\ upload_statuses' = update_upload_status(upload_statuses,
                   PathOf(t), FAILED, attempt[t] + 1, max_retries,
                   UploadFailedMessage(Slice(e, 80)))
            /\ last_error' = [last_error EXCEPT ![t] = e]
            /\ ret' = [ret EXCEPT ![t] = FatalOutcome(e)]
            /\ pc' = [pc EXCEPT ![t] = "finally"]
            /\ UNCHANGED <<attempt, sleeps>>
    /\ UNCHANGED <<svars, operation, file_paths, max_workers, main_pc, active_uploads,
                   upload_lock, status_lock, future, collected, successful,
                   failed, batch_result>>

\* wait_for_operation returns (True, "Operation completed successfully")
WaitSucceeds(t) ==
    /\ pc[t] = "poll"
    /\ status_lock = NoOwner
    /\ upload_statuses' = update_upload_status(upload_statuses, PathOf(t),
                              COMPLETED, 0, 0, <<"Upload", "successful">>)
    /\ ret' = [ret EXCEPT ![t] = [kind |-> "value", success |-> TRUE,
                  message |-> <<"Operation", "completed", "successfully">>]]
    /\ pc' = [pc EXCEPT ![t] = "finally"]
    /\ UNCHANGED <<svars, operation, file_paths, max_workers, main_pc, active_uploads,
                   upload_lock, status_lock, attempt, last_error, calls,
                   sleeps, future, collected, successful, failed,
                   batch_result>>

\* wait_for_operation returns (False, message): only a terminated session
\* is retried, every other message ends the upload
WaitFails(t, message) ==
    /\ pc[t] = "poll"
    /\ status_lock = NoOwner
    /\ IF IsTerminatedSession(message)
       THEN RetryOrGiveUp(t, message)
       ELSE /\ upload_statuses' = update_upload_status(upload_statuses,
                   PathOf(t), FAILED, 0, 0, message)
            /\ ret' = [ret EXCEPT ![t] = [kind |-> "value",
                          success |-> FALSE, message |-> message]]
            /\ pc' = [pc EXCEPT ![t] = "finally"]
            /\ UNCHANGED <<attempt, last_error, sleeps>>
    /\ UNCHANGED <<svars, operation, file_paths, max_workers, main_pc, active_uploads,
                   upload_lock, status_lock, calls, future, collected,
                   successful, failed, batch_result>>

\* time.sleep(actual_delay) returns, the loop starts the next attempt
WakeUp(t) ==
    /\ pc[t] = "sleep"
    /\ pc' = [pc EXCEPT ![t] = "mark"]
    /\ UNCHANGED <<svars, operation, file_paths, max_workers, main_pc, active_uploads,
                   upload_lock, status_lock, upload_statuses, attempt,
                   last_error, calls, sleeps, ret, future, collected,
                   successful, failed, batch_result>>

\* an exception raised in the backoff part of the loop (outside the inner
\* try) leaves upload_with_retry through finally
UnexpectedError == <<"unexpected">>
RaiseInBackoff(t) ==
    /\ pc[t] = "sleep"
    /\ ret' = [ret EXCEPT ![t] = [kind |-> "raise", success |-> FALSE,
                                  message |-> UnexpectedError]]
    /\ pc' = [pc EXCEPT ![t] = "finally"]
    /\ UNCHANGED <<svars, operation, file_paths, max_workers, main_pc, active_uploads,
                   upload_lock, status_lock, upload_statuses, attempt,
                   last_error, calls, sleeps, future, collected, successful,
                   failed, batch_result>>

\* a future whose task ended by an exception: future.result() raises it
FutureException(e) ==
    [done |-> TRUE, success |-> FALSE, file_path |-> 0, text |-> NoText,
     exception |-> e]
Raised(f) == "exception" \in DOMAIN f

\* an exception raised at the entry of upload_file_to_store, before its try
\* statement, escapes the task: the executor stores it in the future
RaiseAtEntry(t) ==
    /\ pc[t] = "precheck"
    /\ future' = [future EXCEPT ![t] = FutureException(UnexpectedError)]
    /\ pc' = [pc EXCEPT ![t] = "finished"]
    /\ UNCHANGED <<svars, operation, file_paths, max_workers, main_pc, active_uploads,
                   upload_lock, status_lock, upload_statuses, attempt,
                   last_error, calls, sleeps, ret, collected, successful,
                   failed, batch_result>>

\* upload_file_to_store: except Exception as e
StoreErrorText(e) ==
    IF Contains(e, <<"NOT_FOUND">>)
    THEN <<"Store", "not", "found:", store_name>>
    ELSE IF Contains(e, <<"PERMISSION_DENIED">>)
    THEN <<"Permission", "denied.", "Check", "your", "API", "key",
           "permissions.">>
    ELSE IF Contains(e, <<"INVALID_ARGUMENT">>)
    THEN <<"Invalid", "argument:">> \o e
    ELSE <<"Upload", "failed:">> \o e

\* upload_file_to_store: the dictionary built from upload_with_retry's
\* outcome
StoreResult(p, r) ==
    IF r.kind = "raise"
    THEN ResultDict(FALSE, p, StoreErrorText(r.message))
    ELSE IF r.success
    THEN ResultDict(TRUE, p, <<"File", "uploaded", "and", "indexed",
                               "successfully">>)
    ELSE ResultDict(FALSE, p, r.message)

\* finally: the key is discarded under _upload_lock; upload_with_retry
\* returns and upload_file_to_store completes the future
Release(t) ==
    /\ pc[t] = "finally"
    /\ upload_lock = NoOwner
    /\ active_uploads' = Discard(active_uploads, KeyOf(t))
    /\ future' = [future EXCEPT ![t] = StoreResult(PathOf(t), ret[t])]
    /\ pc' = [pc EXCEPT ![t] = "finished"]
    /\ UNCHANGED <<svars, operation, file_paths, max_workers, main_pc, upload_lock,
                   status_lock, upload_statuses, attempt, last_error, calls,
                   sleeps, ret, collected, successful, failed, batch_result>>

\* ------------------------------------- upload_multiple_files: collection
\* mutant: the result is appended to both lists
AppendIf_always(list, result, cond) == Append(list, result)

\* if result["success"]: successful.append(result) else: failed.append(result)
AppendIf(list, result, cond) == IF cond THEN Append(list, result) ELSE list

\* mutant: total counts the distinct paths (the status records)
BatchSummary_distinct(paths, succ, fl) ==
    [total |-> Cardinality(Range(paths)), successful |-> succ, failed |-> fl]

\* return {"total": len(file_paths), "successful": ..., "failed": ...}
BatchSummary(paths, succ, fl) ==
    [total |-> Len(paths), successful |-> succ, failed |-> fl]

\* mutant: the exception of a future is filed as a success
CollectedResult_success(f, p) ==
    IF Raised(f)
    THEN ResultDict(TRUE, p, <<"Unexpected", "error:">> \o f.exception)
    ELSE f

\* result = future.result(); except Exception as e: the dictionary
\* {"success": False, "file_path": file_path,
\*  "error": f"Unexpected error: {str(e)}"} stands for a future that raised
CollectedResult(f, p) ==
    IF Raised(f)
    THEN ResultDict(FALSE, p, <<"Unexpected", "error:">> \o f.exception)
    ELSE f

\* as_completed yields a finished future; its result goes to successful or
\* failed; the display is rebuilt from the status tracker
Collect(t) ==
    /\ main_pc = "collect"
    /\ pc[t] = "finished"
    /\ t \notin collected
    /\ status_lock = NoOwner
    /\ collected' = collected \cup {t}
    /\ LET result == CollectedResult(future[t], PathOf(t)) IN
           /\ successful' = AppendIf(successful, result, result.success)
           /\ failed' = AppendIf(failed, result, ~result.success)
    /\ UNCHANGED <<svars, operation, file_paths, max_workers, main_pc, active_uploads,
                   upload_lock, status_lock, upload_statuses, pc, attempt,
                   last_error, calls, sleeps, ret, future, batch_result>>

\* mutant: the loop over as_completed is left after the first future
AllYielded_first(done) == done # {}

\* for future in as_completed(future_to_path): the loop ends when every
\* submitted future has been yielded
AllYielded(done) == done = Tasks

\* every future was yielded: the pool is shut down and the summary returned
ReturnBatch ==
    /\ main_pc = "collect"
    /\ AllYielded(collected)
    /\ batch_result' = BatchSummary(file_paths, successful, failed)
    /\ main_pc' = "done"
    /\ UNCHANGED <<svars, operation, file_paths, max_workers, active_uploads, upload_lock,
                   status_lock, upload_statuses, pc, attempt, last_error,
                   calls, sleeps, ret, future, collected, successful, failed>>

Next ==
    \/ ClearStatuses
    \/ InitStatuses
    \/ \E t \in Tasks : Submit(t)
    \/ \E t \in Tasks : StartTask(t)
    \/ \E t \in Tasks : Precheck(t)
    \/ \E t \in Tasks : TryAcquire(t)
    \/ \E t \in Tasks : DupLockStatus(t)
    \/ \E t \in Tasks : DupReject(t)
    \/ \E t \in Tasks : MarkAttempt(t)
    \/ \E t \in Tasks : UploadReturns(t)
    \/ \E t \in Tasks : \E e \in CollaboratorErrors : UploadRaises(t, e)
    \/ \E t \in Tasks : WaitSucceeds(t)
    \/ \E t \in Tasks : \E m \in WaitFailures : WaitFails(t, m)
    \/ \E t \in Tasks : WakeUp(t)
    \/ \E t \in Tasks : Release(t)
    \/ \E t \in Tasks : Collect(t)
    \/ ReturnBatch

Spec == Init /\ [][Next]_vars

\* one error of each kind the upload call can raise: a retryable one and a
\* fatal one
OutcomeErrors == {E503, EPermission}

\* one failure of each kind wait_for_operation can return: a terminated
\* session, which is retried, and the timeout, which ends the upload
OutcomeFailures == {OperationFailed(ETerminated), OperationTimedOut}

\* a step of task t: the worker that executes it is scheduled, the call it
\* waits for returns or raises, its sleep ends
TaskStep(t) ==
    \/ StartTask(t)
    \/ Precheck(t)
    \/ TryAcquire(t)
    \/ DupLockStatus(t)
    \/ DupReject(t)
    \/ MarkAttempt(t)
    \/ UploadReturns(t)
    \/ \E e \in OutcomeErrors : UploadRaises(t, e)
    \/ WaitSucceeds(t)
    \/ \E m \in OutcomeFailures : WaitFails(t, m)
    \/ WakeUp(t)
    \/ Release(t)

\* a step of the thread that called upload_multiple_files
MainStep ==
    \/ ClearStatuses
    \/ InitStatuses
    \/ \E t \in Tasks : Submit(t)
    \/ \E t \in Tasks : Collect(t)
    \/ ReturnBatch

NextFair == MainStep \/ \E t \in Tasks : TaskStep(t)

\* every thread that can take a step is scheduled in the end, and every
\* call to the collaborator returns or raises
Fairness ==
    /\ WF_vars(MainStep)
    /\ \A t \in 1..MaxFiles : WF_vars(TaskStep(t))

\* the batch with fair scheduling of its threads
SpecFair == Init /\ [][NextFair]_vars /\ Fairness

\* Spec with an exception raised in the backoff part of the loop
NextExc ==
    \/ Next
    \/ \E t \in Tasks : RaiseInBackoff(t)
    \/ \E t \in Tasks : RaiseAtEntry(t)

SpecExc == Init /\ [][NextExc]_vars

\* ------------------------------------------------------ the status tracker
\* The functions of the status tracker step by step: update_upload_status
\* stores its four values one after the other, get_upload_status_table reads
\* the four values of a record one after the other, get_upload_summary_stats
\* computes its four figures in four passes, all inside with _status_lock.
\* The main thread clears and initialises the tracker, builds the display
\* once before the pool exists and again after completed futures; the tasks
\* update their records once the pool exists.

\* number of files of the batch whose display is followed
LockFiles == 3

\* updates a task performs on its record before it is left alone
MaxUpdates == 2
\* displays the main thread builds
MaxReads == 2

\* the owner written into a lock by the main thread
MainThread == LockFiles + 1

\* the keys of a status record, in the order of the dictionary literal
Fields == <<"status", "attempt", "max_retries", "message">>
\* the figures of the summary, in the order they are computed
SummaryFields == <<"total", "completed", "failed", "in_progress">>

\* argument lists upload_with_retry passes to update_upload_status
StatusUpdates ==
    { StatusRecord(UPLOADING, 0, max_retries, NoText),
      StatusRecord(RETRYING, 1, max_retries, Slice(E503, 80)),
      StatusRecord(COMPLETED, 0, 0, <<"Upload", "successful">>),
      StatusRecord(FAILED, max_retries + 1, max_retries, FinalMessage(E503)) }

\* mutant: the functions do not wait for the lock
LockFree_ignored(lock) == TRUE

\* with _status_lock: the block is entered when no thread holds the lock
LockFree(lock) == lock = NoOwner

\* _upload_statuses[file_path] = {...PENDING...}
init_upload_status(st, p) ==
    [q \in DOMAIN st \cup {p} |-> IF q = p THEN PendingRecord ELSE st[q]]

\* clear_upload_statuses()
StClear ==
    /\ reader.pc = "clear"
    /\ LockFree(status_lock)
    /\ upload_statuses' = ClearedStatuses(upload_statuses)
    /\ written' = [p \in Paths |-> {}]
    /\ reader' = [reader EXCEPT !.pc = "init"]
    /\ UNCHANGED <<pvars, operation, file_paths, max_workers, main_pc, active_uploads,
                   upload_lock, status_lock, pc, attempt, last_error, calls,
                   sleeps, ret, future, collected, successful, failed,
                   batch_result, writer>>

\* init_upload_status(file_path) for the next file of the list
StInit ==
    /\ reader.pc = "init"
    /\ LockFree(status_lock)
    /\ LET p == file_paths[reader.i] IN
           /\ upload_statuses' = init_upload_status(upload_statuses, p)
           /\ written' = [written EXCEPT ![p] = @ \cup {PendingRecord}]
    /\ reader' = [reader EXCEPT
           !.i = @ + 1,
           !.pc = IF reader.i = Len(file_paths) THEN "idle" ELSE "init"]
    /\ UNCHANGED <<pvars, operation, file_paths, max_workers, main_pc, active_uploads,
                   upload_lock, status_lock, pc, attempt, last_error, calls,
                   sleeps, ret, future, collected, successful, failed,
                   batch_result, writer>>

\* _create_upload_display calls get_upload_summary_stats: the lock is taken
StSummaryBegin ==
    /\ reader.pc = "idle"
    /\ reader.reads < MaxReads
    /\ LockFree(status_lock)
    /\ status_lock' = MainThread
    /\ reader' = [reader EXCEPT !.pc = "summary", !.field = 0,
                                !.stats = NoStats]
    /\ UNCHANGED <<pvars, operation, file_paths, max_workers, main_pc, active_uploads,
                   upload_lock, upload_statuses, pc, attempt, last_error,
                   calls, sleeps, ret, future, collected, successful, failed,
                   batch_result, writer, written>>

\* get_upload_summary_stats: the next figure is computed from the records
StSummaryPass ==
    /\ reader.pc = "summary"
    /\ reader.field < Len(SummaryFields)
    /\ LET f == SummaryFields[reader.field + 1] IN
           reader' = [reader EXCEPT
               !.field = @ + 1,
               !.stats[f] = get_upload_summary_stats(upload_statuses)[f]]
    /\ UNCHANGED <<pvars, operation, file_paths, max_workers, main_pc, active_uploads,
                   upload_lock, status_lock, upload_statuses, pc, attempt,
                   last_error, calls, sleeps, ret, future, collected,
                   successful, failed, batch_result, writer, written>>

\* get_upload_summary_stats returns and releases the lock
StSummaryEnd ==
    /\ reader.pc = "summary"
    /\ reader.field = Len(SummaryFields)
    /\ status_lock' = NoOwner
    /\ reader' = [reader EXCEPT !.pc = "returned", !.field = 0]
    /\ UNCHANGED <<pvars, operation, file_paths, max_workers, main_pc, active_uploads,
                   upload_lock, upload_statuses, pc, attempt, last_error,
                   calls, sleeps, ret, future, collected, successful, failed,
                   batch_result, writer, written>>

\* get_upload_status_table: the lock is taken, the loop over the records
\* starts
StTableBegin ==
    /\ reader.pc = "returned"
    /\ LockFree(status_lock)
    /\ status_lock' = MainThread
    /\ reader' = [reader EXCEPT !.pc = "table", !.field = 0,
                                !.todo = DOMAIN upload_statuses]
    /\ UNCHANGED <<pvars, operation, file_paths, max_workers, main_pc, active_uploads,
                   upload_lock, upload_statuses, pc, attempt, last_error,
                   calls, sleeps, ret, future, collected, successful, failed,
                   batch_result, writer, written>>

\* the record the loop of get_upload_status_table is at
RowPath == CHOOSE p \in reader.todo : \A q \in reader.todo : p <= q

\* status = info["status"], attempt = info["attempt"], ...: the next value
\* of the record is read
StTableRead ==
    /\ reader.pc = "table"
    /\ reader.todo # {}
    /\ reader.field < Len(Fields)
    /\ LET f == Fields[reader.field + 1] IN
           reader' = [reader EXCEPT
               !.field = @ + 1,
               !.info[f] = upload_statuses[RowPath][f]]
    /\ UNCHANGED <<pvars, operation, file_paths, max_workers, main_pc, active_uploads,
                   upload_lock, status_lock, upload_statuses, pc, attempt,
                   last_error, calls, sleeps, ret, future, collected,
                   successful, failed, batch_result, writer, written>>

\* table.add_row(...): the row is built from the four values read
StTableRow ==
    /\ reader.pc = "table"
    /\ reader.todo # {}
    /\ reader.field = Len(Fields)
    /\ reader' = [reader EXCEPT
           !.seen = [path |-> RowPath, rec |-> reader.info],
           !.todo = @ \ {RowPath},
           !.field = 0]
    /\ UNCHANGED <<pvars, operation, file_paths, max_workers, main_pc, active_uploads,
                   upload_lock, status_lock, upload_statuses, pc, attempt,
                   last_error, calls, sleeps, ret, future, collected,
                   successful, failed, batch_result, writer, written>>

\* get_upload_status_table: the loop has ended, the lock is released and the
\* table returned
StTableEnd ==
    /\ reader.pc = "table"
    /\ reader.todo = {}
    /\ status_lock' = NoOwner
    /\ reader' = [reader EXCEPT !.pc = "idle", !.reads = @ + 1]
    /\ UNCHANGED <<pvars, operation, file_paths, max_workers, main_pc, active_uploads,
                   upload_lock, upload_statuses, pc, attempt, last_error,
                   calls, sleeps, ret, future, collected, successful, failed,
                   batch_result, writer, written>>

\* a task calls update_upload_status(file_path, ...) and takes the lock
WrBegin(t, u) ==
    /\ reader.reads >= 1
    /\ writer[t].pc = "idle"
    /\ writer[t].count < MaxUpdates
    /\ LockFree(status_lock)
    /\ status_lock' = t
    /\ writer' = [writer EXCEPT ![t] = [pc |-> "write", update |-> u,
                                        field |-> 0, count |-> @.count + 1]]
    /\ written' = IF PathOf(t) \in DOMAIN upload_statuses
                  THEN [written EXCEPT ![PathOf(t)] = @ \cup {u}]
                  ELSE written
    /\ UNCHANGED <<pvars, operation, file_paths, max_workers, main_pc, active_uploads,
                   upload_lock, upload_statuses, pc, attempt, last_error,
                   calls, sleeps, ret, future, collected, successful, failed,
                   batch_result, reader>>

\* _upload_statuses[file_path].update({...}): the next value is stored
WrField(t) ==
    /\ writer[t].pc = "write"
    /\ PathOf(t) \in DOMAIN upload_statuses
    /\ writer[t].field < Len(Fields)
    /\ LET f == Fields[writer[t].field + 1] IN
           upload_statuses' = [upload_statuses EXCEPT
                                  ![PathOf(t)][f] = writer[t].update[f]]
    /\ writer' = [writer EXCEPT ![t].field = @ + 1]
    /\ UNCHANGED <<pvars, operation, file_paths, max_workers, main_pc, active_uploads,
                   upload_lock, status_lock, pc, attempt, last_error, calls,
                   sleeps, ret, future, collected, successful, failed,
                   batch_result, reader, written>>

\* update_upload_status leaves the with block: the lock is released
WrEnd(t) ==
    /\ writer[t].pc = "write"
    /\ PathOf(t) \in DOMAIN upload_statuses => writer[t].field = Len(Fields)
    /\ status_lock' = NoOwner
    /\ writer' = [writer EXCEPT ![t].pc = "idle"]
    /\ UNCHANGED <<pvars, operation, file_paths, max_workers, main_pc, active_uploads,
                   upload_lock, upload_statuses, pc, attempt, last_error,
                   calls, sleeps, ret, future, collected, successful, failed,
                   batch_result, reader, written>>

NextStatus ==
    \/ StClear
    \/ StInit
    \/ StSummaryBegin
    \/ StSummaryPass
    \/ StSummaryEnd
    \/ StTableBegin
    \/ StTableRead
    \/ StTableRow
    \/ StTableEnd
    \/ \E t \in Tasks : \E u \in StatusUpdates : WrBegin(t, u)
    \/ \E t \in Tasks : WrField(t)
    \/ \E t \in Tasks : WrEnd(t)

SpecStatus == Init /\ [][NextStatus]_vars


\* ------------------------------------------- the status tracker, call by call
\* The functions of the status tracker as their callers see them: batch
\* after batch the main thread clears the tracker and initialises a record
\* for every file of its list; update_upload_status is called with any path
\* and any of the argument lists, whether the path has a record or not.
\* written[p] holds every record handed over for path p since the clear.

\* update_upload_status(p, ...) is called with the values of u
TrUpdate(p, u) ==
    /\ LockFree(status_lock)
    /\ upload_statuses' = update_upload_status(upload_statuses, p, u.status,
                              u.attempt, u.max_retries, u.message)
    /\ written' = [written EXCEPT ![p] = @ \cup {u}]
    /\ UNCHANGED <<pvars, operation, file_paths, max_workers, main_pc,
                   active_uploads, upload_lock, status_lock, pc, attempt,
                   last_error, calls, sleeps, ret, future, collected,
                   successful, failed, batch_result, writer, reader>>

\* the batch is over; upload_multiple_files is called with the next list
TrNextBatch ==
    /\ reader.pc = "idle"
    /\ file_paths' \in [1..MaxFiles -> Paths]
    /\ reader' = NoReader
    /\ UNCHANGED <<pvars, operation, max_workers, main_pc, active_uploads,
                   upload_lock, status_lock, upload_statuses, pc, attempt,
                   last_error, calls, sleeps, ret, future, collected,
                   successful, failed, batch_result, writer, written>>

InitTracker ==
    /\ InitUpload
    /\ max_workers = 1
    /\ upload_statuses = [p \in {} |-> PendingRecord]
    /\ backoff = NoBackoff
    /\ dedup = NoDedup

NextTracker ==
    \/ StClear
    \/ StInit
    \/ \E p \in Paths : \E u \in StatusUpdates : TrUpdate(p, u)
    \/ TrNextBatch

SpecTracker == InitTracker /\ [][NextTracker]_vars

\* --------------------------------------------------------- backoff delay
\* The delay of the exponential backoff as a function of its inputs. Delays
\* are whole multiples of a time unit; the computation uses only min and a
\* multiplication by a power of two, which are the same in every unit.

\* largest initial_delay and max_delay, in time units
MaxDelay == 32
\* failed attempts in a row
MaxAttempts == 7

UPLOAD_RETRY_INITIAL_DELAY == 1
UPLOAD_RETRY_MAX_DELAY == 32

\* one initial state of the batch, which the delay computation and the
\* duplicate detection leave alone
UploadAtRest ==
    /\ InitUpload
    /\ file_paths = [t \in 1..MaxFiles |-> 1]
    /\ max_workers = 1
    /\ upload_statuses = [p \in {} |-> PendingRecord]

\* mutant: the delay is not capped
BackoffDelay_uncapped(initial_delay, max_delay, a) ==
    initial_delay * (2 ^ (a - 1))

\* delay = min(initial_delay * (2 ** (attempt - 1)), max_delay)
BackoffDelay(initial_delay, max_delay, a) ==
    Min(initial_delay * (2 ^ (a - 1)), max_delay)

InitBackoff ==
    /\ UploadAtRest
    /\ dedup = NoDedup
    /\ \E i, m \in 1..MaxDelay :
           backoff = [initial_delay |-> i, max_delay |-> m, attempt |-> 0,
                      delay |-> 0, previous |-> 0]

\* an attempt has failed: attempt += 1 and the delay is computed
NextDelay ==
    /\ backoff.attempt < MaxAttempts
    /\ backoff' = [backoff EXCEPT
           !.attempt = @ + 1,
           !.previous = backoff.delay,
           !.delay = BackoffDelay(backoff.initial_delay, backoff.max_delay,
                                  backoff.attempt + 1)]
    /\ UNCHANGED <<operation, file_paths, max_workers, main_pc, active_uploads,
                   upload_lock, status_lock, upload_statuses, pc, attempt,
                   last_error, calls, sleeps, ret, future, collected,
                   successful, failed, batch_result, writer, reader, written,
                   dedup>>

SpecBackoff == InitBackoff /\ [][NextDelay]_vars

\* ---------------------------------------------------------- jittered sleep
\* The duration of the backoff sleep as a function of initial_delay,
\* max_delay, the number of the failed attempt and the value of
\* random.random(). random.random() returns k / RandomSteps for a k in
\* 0..RandomSteps-1, so it is at least 0 and below 1. Durations are whole
\* numbers of ticks, a tick being 1 / (40 * RandomSteps) of a second: for a
\* delay of whole tenths of a second, delay * 0.25 * (2 * random - 1) is a
\* whole number of ticks.

\* values random.random() can take
RandomSteps == 8
\* largest initial_delay and max_delay, in tenths of a second
MaxTenths == 12

Max(a, b) == IF a >= b THEN a ELSE b

\* a tenth of a second, in ticks
TicksPerTenth == 4 * RandomSteps

\* the 0.1 of max(0.1, delay + jitter), in ticks
SleepFloor == TicksPerTenth

\* mutant: the variation is half of the delay
Jitter_half(delay, k) ==
    (delay * (2 * k - RandomSteps)) \div (2 * RandomSteps)

\* jitter = delay * 0.25 * (2 * random.random() - 1), random.random() being
\* k / RandomSteps
Jitter(delay, k) ==
    (delay * (2 * k - RandomSteps)) \div (4 * RandomSteps)

\* actual_delay = max(0.1, delay + jitter)
ActualDelay(delay, jitter) == Max(SleepFloor, delay + jitter)

InitJitter ==
    /\ UploadAtRest
    /\ dedup = NoDedup
    /\ \E i, m \in 1..MaxTenths :
           backoff = [initial_delay |-> i * TicksPerTenth,
                      max_delay |-> m * TicksPerTenth, attempt |-> 0,
                      delay |-> 0, random |-> 0, jitter |-> 0,
                      actual_delay |-> 0]

\* an attempt has failed and attempts remain: attempt += 1, the delay, the
\* jitter and the duration handed to time.sleep are computed
NextSleep(k) ==
    /\ backoff.attempt < MaxAttempts
    /\ LET delay == BackoffDelay(backoff.initial_delay, backoff.max_delay,
                                 backoff.attempt + 1)
           jitter == Jitter(delay, k) IN
       backoff' = [backoff EXCEPT
           !.attempt = @ + 1,
           !.delay = delay,
           !.random = k,
           !.jitter = jitter,
           !.actual_delay = ActualDelay(delay, jitter)]
    /\ UNCHANGED <<operation, file_paths, max_workers, main_pc, active_uploads,
                   upload_lock, status_lock, upload_statuses, pc, attempt,
                   last_error, calls, sleeps, ret, future, collected,
                   successful, failed, batch_result, writer, reader, written,
                   dedup>>

NextJitter == \E k \in 0..(RandomSteps - 1) : NextSleep(k)

SpecJitter == InitJitter /\ [][NextJitter]_vars

\* ----------------------------------------------------- duplicate detection
\* detect_duplicate_files and get_deduplicated_files as functions of the
\* batch, of the content of the files and of the answers of the user. A
\* batch is a list of paths, which may name a path more than once; an answer
\* is a string of characters.

\* longest batch handed to get_deduplicated_files
MaxBatch == 4

\* the files on disk
DedupPaths == 1..6
\* calculate_file_hash raises for the file (it cannot be read)
NoHash == "none"
\* calculate_file_hash: files 1 and 2 have one content, files 3 and 4
\* another, file 5 cannot be read, file 6 has a content of its own
FileHash(p) ==
    CASE p \in {1, 2} -> "sha_a"
      [] p \in {3, 4} -> "sha_b"
      [] p = 5 -> NoHash
      [] OTHER -> "sha_c"
Hashes == {FileHash(p) : p \in DedupPaths} \ {NoHash}

Batches == UNION {[1..n -> DedupPaths] : n \in 0..MaxBatch}

\* what Prompt.ask can return
Selections ==
    { <<"1">>, <<"2">>, <<"3">>, <<"0">>, <<"5">>, <<"-", "1">>,
      <<"+", "2">>, <<" ", "2">>, <<"1", "2">>, <<"0", "2">>,
      <<"a", "l", "l">>, <<"A", "L", "L">>, <<"A", "l", "l">>, <<"a", "l">>,
      <<"x">>, <<"1", "x">>, <<"2", ".", "0">>, <<" ">>, <<"-">> }

\* str.lower() on the characters of an answer
LowerChar(c) == CASE c = "A" -> "a" [] c = "L" -> "l" [] OTHER -> c
LowerStr(s) == [i \in 1..Len(s) |-> LowerChar(s[i])]

\* int(selection): surrounding blanks are dropped, a sign may lead, the rest
\* must be decimal digits; anything else is a ValueError
Digits == <<"0", "1", "2", "3", "4", "5", "6", "7", "8", "9">>
IsDigit(c) == \E d \in 1..Len(Digits) : Digits[d] = c
DigitValue(c) == (CHOOSE d \in 1..Len(Digits) : Digits[d] = c) - 1
RECURSIVE StripBlanks(_)
StripBlanks(s) ==
    IF s # <<>> /\ Head(s) = " " THEN StripBlanks(Tail(s))
    ELSE IF s # <<>> /\ s[Len(s)] = " "
    THEN StripBlanks(SubSeq(s, 1, Len(s) - 1))
    ELSE s
Unsigned(s) ==
    LET b == StripBlanks(s) IN
    IF b # <<>> /\ Head(b) \in {"+", "-"} THEN Tail(b) ELSE b
IsIntText(s) ==
    /\ Unsigned(s) # <<>>
    /\ \A i \in 1..Len(Unsigned(s)) : IsDigit(Unsigned(s)[i])
RECURSIVE DigitsValue(_)
DigitsValue(d) ==
    IF d = <<>> THEN 0
    ELSE 10 * DigitsValue(SubSeq(d, 1, Len(d) - 1)) + DigitValue(d[Len(d)])
IntValue(s) ==
    IF Head(StripBlanks(s)) = "-" THEN 0 - DigitsValue(Unsigned(s))
    ELSE DigitsValue(Unsigned(s))

\* mutant: a file that cannot be hashed shares a list with the others like it
HashKey_unreadable(h) == TRUE

\* the try block of detect_duplicate_files has a hash to file the path under
HashKey(h) == h # NoHash

\* detect_duplicate_files: the loop over file_paths; keys holds the hashes
\* in the order of their insertion into hash_to_files
RECURSIVE HashLoop(_, _, _)
HashLoop(files, i, acc) ==
    IF i > Len(files) THEN acc
    ELSE LET h == FileHash(files[i]) IN
         IF HashKey(h)
         THEN HashLoop(files, i + 1,
                  [keys |-> IF h \in Range(acc.keys) THEN acc.keys
                            ELSE Append(acc.keys, h),
                   lists |-> [acc.lists EXCEPT ![h] = Append(@, files[i])]])
         ELSE HashLoop(files, i + 1, acc)

\* mutant: every list of hash_to_files is returned
IsDuplicateList_any(files) == Len(files) > 0

\* if len(files) > 1
IsDuplicateList(files) == Len(files) > 1

\* detect_duplicate_files: the lists of two and more files, in the order
\* of the dictionary
detect_duplicate_files(files) ==
    LET acc == HashLoop(files, 1,
                   [keys |-> <<>>,
                    lists |-> [h \in Hashes \cup {NoHash} |-> <<>>]])
        dupkeys == SelectSeq(acc.keys,
                       LAMBDA h : IsDuplicateList(acc.lists[h]))
    IN [g \in 1..Len(dupkeys) |->
           [hash |-> dupkeys[g], files |-> acc.lists[dupkeys[g]]]]

\* all_duplicate_files
all_duplicate_files(duplicates) ==
    UNION {Range(duplicates[g].files) : g \in 1..Len(duplicates)}

\* mutant: an index out of range keeps nothing
FallbackFirst_nothing(dup_files) == <<>>

\* files_to_keep.append(dup_files[0]) after an invalid selection or input
FallbackFirst(dup_files) == <<dup_files[1]>>

\* what one answer adds to files_to_keep
Selected(dup_files, selection) ==
    IF LowerStr(selection) = <<"a", "l", "l">> THEN dup_files
    ELSE IF IsIntText(selection)
    THEN IF 1 <= IntValue(selection) /\ IntValue(selection) <= Len(dup_files)
         THEN <<dup_files[IntValue(selection)]>>
         ELSE FallbackFirst(dup_files)
    ELSE FallbackFirst(dup_files)

\* mutant: the last file of every group is kept
KeepFirsts_last(duplicates) ==
    [g \in 1..Len(duplicates) |->
        duplicates[g].files[Len(duplicates[g].files)]]

\* mutant: the first two files of every group are kept
KeepFirsts_pair(duplicates) ==
    [k \in 1..(2 * Len(duplicates)) |->
        duplicates[(k + 1) \div 2].files[2 - (k % 2)]]

\* for dup_files in duplicates.values(): files_to_keep.append(dup_files[0])
KeepFirsts(duplicates) ==
    [g \in 1..Len(duplicates) |-> duplicates[g].files[1]]

InitDedup ==
    /\ UploadAtRest
    /\ backoff = NoBackoff
    /\ \E files \in Batches : \E interactive \in BOOLEAN :
           dedup = [pc |-> "start", files |-> files,
                    interactive |-> interactive, duplicates |-> <<>>,
                    files_to_keep |-> <<>>, g |-> 1, selections |-> <<>>,
                    kept |-> <<>>, result |-> <<>>]

\* duplicates = detect_duplicate_files(file_paths); without duplicates the
\* list is returned as it is, else the files outside the groups are kept
DdDetect ==
    /\ dedup.pc = "start"
    /\ LET duplicates == detect_duplicate_files(dedup.files) IN
       IF duplicates = <<>>
       THEN dedup' = [dedup EXCEPT !.pc = "returned",
                                   !.files_to_keep = dedup.files,
                                   !.result = dedup.files]
       ELSE dedup' = [dedup EXCEPT
                !.pc = IF dedup.interactive THEN "prompt" ELSE "firsts",
                !.duplicates = duplicates,
                !.files_to_keep = SelectSeq(dedup.files,
                     LAMBDA p : p \notin all_duplicate_files(duplicates))]
    /\ UNCHANGED <<operation, file_paths, max_workers, main_pc, active_uploads,
                   upload_lock, status_lock, upload_statuses, pc, attempt,
                   last_error, calls, sleeps, ret, future, collected,
                   successful, failed, batch_result, writer, reader, written,
                   backoff>>

\* interactive: the user's answer for the next group
DdSelect(selection) ==
    /\ dedup.pc = "prompt"
    /\ LET dup_files == dedup.duplicates[dedup.g].files
           add == Selected(dup_files, selection) IN
       dedup' = [dedup EXCEPT
           !.files_to_keep = @ \o add,
           !.selections = Append(@, selection),
           !.kept = Append(@, add),
           !.g = @ + 1,
           !.pc = IF dedup.g = Len(dedup.duplicates) THEN "return"
                  ELSE "prompt"]
    /\ UNCHANGED <<operation, file_paths, max_workers, main_pc, active_uploads,
                   upload_lock, status_lock, upload_statuses, pc, attempt,
                   last_error, calls, sleeps, ret, future, collected,
                   successful, failed, batch_result, writer, reader, written,
                   backoff>>

\* non-interactive: the first file of every group is kept
DdFirsts ==
    /\ dedup.pc = "firsts"
    /\ dedup' = [dedup EXCEPT
           !.files_to_keep = @ \o KeepFirsts(dedup.duplicates),
           !.pc = "return"]
    /\ UNCHANGED <<operation, file_paths, max_workers, main_pc, active_uploads,
                   upload_lock, status_lock, upload_statuses, pc, attempt,
                   last_error, calls, sleeps, ret, future, collected,
                   successful, failed, batch_result, writer, reader, written,
                   backoff>>

\* return files_to_keep, duplicates
DdReturn ==
    /\ dedup.pc = "return"
    /\ dedup' = [dedup EXCEPT !.pc = "returned",
                              !.result = dedup.files_to_keep]
    /\ UNCHANGED <<operation, file_paths, max_workers, main_pc, active_uploads,
                   upload_lock, status_lock, upload_statuses, pc, attempt,
                   last_error, calls, sleeps, ret, future, collected,
                   successful, failed, batch_result, writer, reader, written,
                   backoff>>

NextDedup ==
    \/ DdDetect
    \/ \E selection \in Selections : DdSelect(selection)
    \/ DdFirsts
    \/ DdReturn

SpecDedup == InitDedup /\ [][NextDedup]_vars

\* get_deduplicated_files(files, interactive=False) and then the same call
\* on the list it returned: round counts the calls, batch is the argument
\* of the first call and first the list the first call returned
InitAgain ==
    /\ UploadAtRest
    /\ backoff = NoBackoff
    /\ \E files \in Batches :
           dedup = [pc |-> "start", files |-> files,
                    interactive |-> FALSE, duplicates |-> <<>>,
                    files_to_keep |-> <<>>, g |-> 1, selections |-> <<>>,
                    kept |-> <<>>, result |-> <<>>, round |-> 1,
                    batch |-> files, first |-> <<>>]

\* the caller hands the returned list to get_deduplicated_files again
DdAgain ==
    /\ dedup.pc = "returned"
    /\ dedup.round = 1
    /\ dedup' = [dedup EXCEPT !.pc = "start", !.files = dedup.result,
                              !.duplicates = <<>>, !.files_to_keep = <<>>,
                              !.result = <<>>, !.round = 2,
                              !.first = dedup.result]
    /\ UNCHANGED <<operation, file_paths, max_workers, main_pc, active_uploads,
                   upload_lock, status_lock, upload_statuses, pc, attempt,
                   last_error, calls, sleeps, ret, future, collected,
                   successful, failed, batch_result, writer, reader, written,
                   backoff>>

NextAgain ==
    \/ DdDetect
    \/ DdFirsts
    \/ DdReturn
    \/ DdAgain

SpecAgain == InitAgain /\ [][NextAgain]_vars

\* ------------------------------------------------- the batch and its display
\* The batch with the main thread inside the status functions: the main
\* thread builds the display (_create_upload_display: the summary, then the
\* table) once before the pool exists and again after every future it has
\* collected; each of the two functions holds _status_lock from its first to
\* its last statement, while the tasks go on.

\* the main thread inside with _status_lock of a status function
InDisplay == [NoReader EXCEPT !.pc = "display"]

\* mutant: the status functions ask for _upload_lock inside their block
SectionEnds_guarded(guard) == guard = NoOwner

\* the block of get_upload_summary_stats and of get_upload_status_table
\* takes no other lock: it ends whoever owns _upload_lock
SectionEnds(guard) == TRUE

\* the main thread is where it builds the display: before the first submit
\* or after a collected future
AtDisplay ==
    \/ main_pc = "submit" /\ \A t \in Tasks : pc[t] = "unsubmitted"
    \/ main_pc = "collect" /\ collected # {}

\* get_upload_summary_stats or get_upload_status_table takes _status_lock
DisplayEnter ==
    /\ AtDisplay
    /\ reader = NoReader
    /\ LockFree(status_lock)
    /\ status_lock' = MainThread
    /\ reader' = InDisplay
    /\ UNCHANGED <<pvars, operation, file_paths, max_workers, main_pc,
                   active_uploads, upload_lock, upload_statuses, pc, attempt,
                   last_error, calls, sleeps, ret, future, collected,
                   successful, failed, batch_result, writer, written>>

\* the function returns and releases _status_lock
DisplayLeave ==
    /\ reader = InDisplay
    /\ SectionEnds(upload_lock)
    /\ status_lock' = NoOwner
    /\ reader' = NoReader
    /\ UNCHANGED <<pvars, operation, file_paths, max_workers, main_pc,
                   active_uploads, upload_lock, upload_statuses, pc, attempt,
                   last_error, calls, sleeps, ret, future, collected,
                   successful, failed, batch_result, writer, written>>

\* a step of the main thread outside the status functions
MainNext ==
    /\ reader = NoReader
    /\ \/ ClearStatuses
       \/ InitStatuses
       \/ \E t \in Tasks : Submit(t)
       \/ \E t \in Tasks : Collect(t)
       \/ ReturnBatch

\* what the collaborator does to the uploads of this batch: an upload call
\* returns or raises a transient error, the polling succeeds or times out
DisplayErrors == {E503}
DisplayFailures == {OperationTimedOut}

\* a step of a task of the pool
TaskNext ==
    \/ \E t \in Tasks : StartTask(t)
    \/ \E t \in Tasks : Precheck(t)
    \/ \E t \in Tasks : TryAcquire(t)
    \/ \E t \in Tasks : DupLockStatus(t)
    \/ \E t \in Tasks : DupReject(t)
    \/ \E t \in Tasks : MarkAttempt(t)
    \/ \E t \in Tasks : UploadReturns(t)
    \/ \E t \in Tasks : \E e \in DisplayErrors : UploadRaises(t, e)
    \/ \E t \in Tasks : WaitSucceeds(t)
    \/ \E t \in Tasks : \E m \in DisplayFailures : WaitFails(t, m)
    \/ \E t \in Tasks : WakeUp(t)
    \/ \E t \in Tasks : Release(t)

NextLocks ==
    \/ MainNext
    \/ TaskNext
    \/ DisplayEnter
    \/ DisplayLeave

InitLocks ==
    /\ InitBatch(LockFiles)
    /\ backoff = NoBackoff
    /\ dedup = NoDedup

SpecLocks == InitLocks /\ [][NextLocks]_vars

TypeOK ==
    /\ active_uploads \subseteq {upload_key(p) : p \in Paths}
    /\ upload_lock \in {NoOwner} \cup Tasks
    /\ status_lock \in {NoOwner} \cup Tasks
    /\ DOMAIN upload_statuses \subseteq Paths
    /\ \A p \in DOMAIN upload_statuses :
           upload_statuses[p].status \in UploadStatus


\* ================================================================== claims
\* a task is between its successful acquisition of the key and its release
Holds(t) == pc[t] \in {"mark", "upload", "poll", "sleep", "finally"}

\* the task's request was refused because the key was held
Rejected(t) ==
    /\ future[t].done
    /\ future[t].text \in {DuplicateMessage, PrecheckMessage}

\* C1: for every (store_name, file_path) key at most one task is between a
\* successful acquisition of the key and its release
C1_InFlightMutex ==
    \A t \in Tasks : \A u \in Tasks :
        (t # u /\ KeyOf(t) = KeyOf(u)) => ~(Holds(t) /\ Holds(u))

\* C1 witness: a task holds a key while a second task asking for the same
\* key is in the duplicate branch
C1_Witness ==
    \E t \in Tasks : \E u \in Tasks :
        /\ t # u
        /\ KeyOf(t) = KeyOf(u)
        /\ Holds(t)
        /\ pc[u] = "dup_status"

\* C2: when upload_multiple_files returns, total is the number of
\* successful results plus the number of failed results, and it is the
\* number of file paths submitted
C2_BatchTotals ==
    main_pc = "done" =>
        /\ batch_result.total
             = Len(batch_result.successful) + Len(batch_result.failed)
        /\ batch_result.total = Len(file_paths)

\* C2 witness: a returned batch with a successful and a failed file
C2_Witness ==
    /\ main_pc = "done"
    /\ Len(batch_result.successful) >= 1
    /\ Len(batch_result.failed) >= 1

\* number of entries of a result list that are for path p
CountFor(list, p) == Cardinality({i \in 1..Len(list) : list[i].file_path = p})

\* C3: every collected task has put exactly one result for its path into
\* exactly one of successful and failed (success results into successful,
\* failure results into failed), and at completion every task is collected
C3_OneResultPerTask ==
    /\ \A p \in Paths :
           CountFor(successful, p) + CountFor(failed, p)
             = Cardinality({t \in collected : PathOf(t) = p})
    /\ \A i \in 1..Len(successful) : successful[i].success
    /\ \A i \in 1..Len(failed) : ~failed[i].success
    /\ main_pc = "done" => collected = Tasks
    /\ \A t \in collected : future[t].done

\* C3 witness: the batch has returned with two tasks of one path, one in
\* successful and one in failed
C3_Witness ==
    /\ main_pc = "done"
    /\ \E p \in Paths : CountFor(successful, p) = 1 /\ CountFor(failed, p) = 1

\* C4: one upload_with_retry call issues at most max_retries + 1 upload
\* calls to the collaborator
C4_AttemptBound == \A t \in Tasks : calls[t] <= max_retries + 1

\* C4 witness: an upload that ended after max_retries + 1 upload calls
C4_Witness ==
    \E t \in Tasks : pc[t] = "finished" /\ calls[t] = max_retries + 1

\* C5: every status record has attempt <= max_retries + 1 on its own fields
C5_StatusAttemptBound ==
    \A p \in DOMAIN upload_statuses :
        upload_statuses[p].attempt <= upload_statuses[p].max_retries + 1

\* C5 witness: a record written at exhaustion, attempt = max_retries + 1
C5_Witness ==
    \E p \in DOMAIN upload_statuses :
        /\ upload_statuses[p].status = FAILED
        /\ upload_statuses[p].max_retries = max_retries
        /\ upload_statuses[p].attempt = max_retries + 1

\* C6: a key in the active set belongs to a task that acquired it and has
\* not left upload_with_retry; so a task that left (by success, fatal
\* failure, exhaustion or exception) holds nothing, and when all tasks of
\* the batch have terminated the active set is empty
C6_GuardNeverLeaks ==
    /\ active_uploads = {KeyOf(t) : t \in {u \in Tasks : Holds(u)}}
    /\ (\A t \in Tasks : pc[t] = "finished") => active_uploads = {}

\* C6 witness: all tasks have terminated, one by an exception and one by a
\* returned result after acquiring the key
C6_Witness ==
    /\ \A t \in Tasks : pc[t] = "finished"
    /\ \E t \in Tasks : ret[t].kind = "raise"
    /\ \E t \in Tasks : ret[t].kind = "value" /\ calls[t] >= 1

\* C7: a request for a key another task holds is refused at once: at the
\* step that refuses it the task has made no upload call, slept in no
\* backoff and used no attempt, and the holder still holds the key
C7_DuplicateInProgress ==
    [][\A t \in Tasks :
          (~Rejected(t) /\ Rejected(t)') =>
              /\ calls'[t] = 0
              /\ sleeps'[t] = 0
              /\ attempt'[t] = 0
              /\ \E u \in Tasks :
                     /\ u # t
                     /\ KeyOf(u) = KeyOf(t)
                     /\ Holds(u)
                     /\ Holds(u)'
                     /\ pc'[u] = pc[u]
                     /\ KeyOf(t) \in active_uploads']_vars

\* C7 witness: a task was refused inside upload_with_retry while the holder
\* is still polling its operation
C7_Witness ==
    \E t \in Tasks : \E u \in Tasks :
        /\ u # t
        /\ KeyOf(u) = KeyOf(t)
        /\ future[t].done
        /\ future[t].text = DuplicateMessage
        /\ pc[u] = "poll"


\* a status change of a record in one step: <<old, new>>
Changes ==
    {<<upload_statuses[p].status, upload_statuses'[p].status>> :
        p \in {q \in DOMAIN upload_statuses \cap DOMAIN upload_statuses' :
                 upload_statuses[q].status # upload_statuses'[q].status}}

\* the batch is running: its records exist and none is cleared
InBatch == main_pc \in {"submit", "collect", "done"}

\* the transitions of the claimed state machine
ClaimedTransitions ==
    { <<PENDING, UPLOADING>>, <<UPLOADING, RETRYING>>,
      <<RETRYING, UPLOADING>>, <<UPLOADING, COMPLETED>>,
      <<UPLOADING, FAILED>> }

\* C8 as claimed: every change of a record's state during a batch is one of
\* Pending->Uploading, Uploading->Retrying, Retrying->Uploading,
\* Uploading->Completed, Uploading->Failed
C8_ClaimedTransitions ==
    [][InBatch => Changes \subseteq ClaimedTransitions]_vars

\* the transitions of a record that one task writes
SingleWriterTransitions ==
    { <<PENDING, UPLOADING>>, <<UPLOADING, RETRYING>>,
      <<UPLOADING, COMPLETED>>, <<UPLOADING, FAILED>>,
      <<RETRYING, COMPLETED>>, <<RETRYING, FAILED>> }

\* further transitions of a record whose path two tasks of the batch share:
\* a refused duplicate writes FAILED, the holder and the next holder write
\* over a terminal state
OverwriteTransitions ==
    { <<PENDING, FAILED>>, <<FAILED, UPLOADING>>, <<FAILED, RETRYING>>,
      <<FAILED, COMPLETED>>, <<COMPLETED, UPLOADING>>,
      <<COMPLETED, FAILED>> }

\* the path is submitted by two tasks of the batch
SharedPath(p) ==
    \E t \in Tasks : \E u \in Tasks : t # u /\ PathOf(t) = p /\ PathOf(u) = p

\* C8 amended: every change of a record's state during a batch is one of
\* Pending->Uploading, Uploading->Retrying, Uploading->Completed,
\* Uploading->Failed, Retrying->Completed, Retrying->Failed (a later
\* attempt leaves the record Retrying, Retrying->Uploading never occurs);
\* only a record whose path two tasks share can also change
\* Pending->Failed, Failed->Uploading, Failed->Retrying, Failed->Completed,
\* Completed->Uploading, Completed->Failed
C8_Transitions ==
    [][InBatch =>
         \A p \in DOMAIN upload_statuses \cap DOMAIN upload_statuses' :
             LET old == upload_statuses[p].status
                 new == upload_statuses'[p].status
             IN  old # new =>
                   \/ <<old, new>> \in SingleWriterTransitions
                   \/ SharedPath(p) /\ <<old, new>> \in OverwriteTransitions
      ]_vars

\* C8 witness: an upload succeeded on a retry, its record went from
\* Retrying to Completed, written by the only task of its path
C8_Witness ==
    \E t \in Tasks :
        /\ ~SharedPath(PathOf(t))
        /\ pc[t] = "finally"
        /\ attempt[t] >= 1
        /\ ret[t].success
        /\ upload_statuses[PathOf(t)].status = COMPLETED

\* C9 as claimed: during a batch no update changes the state of a record
\* that is Completed or Failed
C9_TerminalAbsorbing ==
    [][InBatch =>
         \A ch \in Changes : ch[1] \notin {COMPLETED, FAILED}]_vars

\* C10 as claimed: a failed attempt whose message contains a retryable
\* pattern is retried while attempts remain, so upload_with_retry returns
\* a failure with such a message only when no attempt remains
C10_TransientIsRetried ==
    \A t \in Tasks :
        ( /\ pc[t] = "finally"
          /\ ret[t].kind = "value"
          /\ ~ret[t].success
          /\ IsRetryable(ret[t].message) )
        => attempt[t] + 1 > max_retries


\* the task's attempt ends in this step with a failure (it goes on to back
\* off or to return a failure)
AttemptFails(t) ==
    /\ pc[t] \in {"upload", "poll"}
    /\ \/ pc'[t] = "sleep"
       \/ pc'[t] = "finally" /\ ~ret'[t].success

\* the message of the attempt that fails in this step: the error kept for
\* the retry, or the message of the returned failure
FailureMessage(t) ==
    IF pc'[t] = "sleep" THEN last_error'[t] ELSE ret'[t].message

\* upload_with_retry has returned a failure for a message that matches no
\* retryable pattern
FatalReturn(t) ==
    /\ pc[t] \in {"finally", "finished"}
    /\ ret[t].kind = "value"
    /\ ~ret[t].success
    /\ calls[t] >= 1
    /\ ~IsRetryable(ret[t].message)

\* C11: a failed attempt whose message matches no retryable pattern ends
\* the upload in that step: no backoff sleep, the record becomes Failed, a
\* failure is returned, the upload calls made are those of the attempts so
\* far (1 on the first attempt); afterwards no upload call and no sleep
\* happens, and once the task has left, it holds no key
C11_FatalFailure ==
    /\ [][\A t \in Tasks :
            (AttemptFails(t) /\ ~IsRetryable(FailureMessage(t))) =>
                /\ pc'[t] = "finally"
                /\ ret'[t].kind = "value"
                /\ upload_statuses'[PathOf(t)].status = FAILED
                /\ sleeps'[t] = sleeps[t]
                /\ calls'[t] = attempt[t] + 1
                /\ attempt'[t] = attempt[t]]_vars
    /\ [][\A t \in Tasks :
            FatalReturn(t) =>
                /\ calls'[t] = calls[t]
                /\ sleeps'[t] = sleeps[t]
                /\ pc'[t] \in {"finally", "finished"}
                /\ (pc'[t] = "finished" =>
                      (KeyOf(t) \in active_uploads' =>
                          \E u \in Tasks : u # t /\ KeyOf(u) = KeyOf(t)
                                           /\ Holds(u)'))]_vars

\* C11 witness: PERMISSION_DENIED raised by the first upload call: the task
\* has left after 1 call and no sleep, its record is Failed, its key free
C11_Witness ==
    \E t \in Tasks :
        /\ pc[t] = "finished"
        /\ FatalReturn(t)
        /\ ret[t].message = UploadFailedMessage(EPermission)
        /\ calls[t] = 1
        /\ sleeps[t] = 0
        /\ upload_statuses[PathOf(t)].status = FAILED
        /\ KeyOf(t) \notin active_uploads


\* upload_with_retry has returned a failure whose message contains a
\* retryable pattern: its last attempt, and every attempt before it (each
\* was retried), failed transiently
TransientReturn(t) ==
    /\ pc[t] \in {"finally", "finished"}
    /\ ret[t].kind = "value"
    /\ ~ret[t].success
    /\ calls[t] >= 1
    /\ IsRetryable(ret[t].message)

\* C12 as claimed: when every attempt fails transiently, exactly
\* max_retries + 1 attempts occur, a failure is returned whose message
\* contains the last error, and the record is written Failed
C12_RetryExhaustion ==
    \A t \in Tasks :
        (TransientReturn(t) /\ pc[t] = "finally") =>
            /\ calls[t] = max_retries + 1
            /\ Contains(ret[t].message, last_error[t])
            /\ (~SharedPath(PathOf(t)) =>
                   upload_statuses[PathOf(t)].status = FAILED)

\* what the code does when the transient errors are raised by the upload
\* call: max_retries + 1 calls, then Failed with the last error's text
C12_ExhaustedByRaises ==
    \E t \in Tasks :
        /\ pc[t] = "finally"
        /\ ret[t].message = FinalMessage(E503)
        /\ calls[t] = max_retries + 1
        /\ sleeps[t] = max_retries
        /\ upload_statuses[PathOf(t)].status = FAILED


\* C13 as claimed: an upload whose first two attempts failed (the last of
\* them with "503 Service Unavailable") and whose third attempt succeeds
\* returns success and leaves its record Completed with attempt = 3
C13_RecoveryOnThirdAttempt ==
    \A t \in Tasks :
        ( /\ pc[t] = "finally"
          /\ calls[t] = 3
          /\ sleeps[t] = 2
          /\ last_error[t] = E503
          /\ ret[t].kind = "value"
          /\ ret[t].success
          /\ ~SharedPath(PathOf(t)) )
        => /\ upload_statuses[PathOf(t)].status = COMPLETED
           /\ upload_statuses[PathOf(t)].attempt = 3


\* C14: when upload_multiple_files has returned its summary, every task
\* has produced its result: none is queued, running, polling or sleeping
C14_ReturnsAfterAllTasks ==
    main_pc = "done" =>
        \A t \in Tasks : pc[t] = "finished" /\ future[t].done

\* C14 witness: the summary is returned for a batch in which one task
\* retried (slept in backoff) and the pool had a single worker, so the
\* other task waited in the queue
C14_Witness ==
    /\ main_pc = "done"
    /\ max_workers = 1
    /\ Len(file_paths) >= 2
    /\ \E t \in Tasks : sleeps[t] >= 1


\* a collected task whose future holds a failure dictionary or an exception
FailedTask(t) ==
    t \in collected /\ (Raised(future[t]) \/ ~future[t].success)

HandlesError(t) ==
    \/ pc[t] = "upload" /\ calls'[t] = calls[t] + 1 /\ pc'[t] # "poll"
    \/ pc[t] = "poll" /\ pc'[t] # "poll" /\ ~(ret'[t].success)

\* C16: a step that handles an error raised by the upload call or by
\* polling either goes on to the backoff of a retry or hands a value
\* (False, message, None) to the caller; so whatever upload_with_retry hands
\* to its caller after an upload call is a value, never an exception
C16_NeverRaises ==
    /\ [][\A t \in Tasks : HandlesError(t) =>
             \/ pc'[t] = "sleep" /\ ret'[t] = NoRet
             \/ /\ pc'[t] = "finally"
                /\ ret'[t].kind = "value"
                /\ ~ret'[t].success]_vars
    /\ [](\A t \in Tasks :
             pc[t] \in {"finally", "finished"} /\ calls[t] >= 1 =>
                 /\ ret[t].kind = "value"
                 /\ future[t].done => ~Raised(future[t]))

\* C16 witness: one upload ended by a fatal error raised by the upload
\* call, the other by an error raised while polling, both with a value
C16_Witness ==
    /\ Len(file_paths) >= 2
    /\ pc[1] = "finished" /\ ret[1] = FatalOutcome(EPermission)
    /\ pc[2] = "finished"
    /\ ret[2] = [kind |-> "value", success |-> FALSE,
                 message |-> PollError(E503)]


\* threads inside a block guarded by _status_lock
InStatusSection ==
    {t \in Tasks : writer[t].pc = "write"}
      \cup (IF reader.pc \in {"summary", "table"} THEN {MainThread} ELSE {})

\* the record of path p is one that init or one update handed over whole
Whole(p) == upload_statuses[p] \in written[p]

\* C17: the functions of the status tracker exclude each other: at most
\* one thread is inside a block guarded by the status lock; every row the
\* table reader has built carries the four values of one init or one update
\* of that path; while the summary is computed every record is whole, and
\* the figures it returns are those of the records at its return
C17_StatusAtomicity ==
    /\ Cardinality(InStatusSection) <= 1
    /\ reader.seen.path # 0 => reader.seen.rec \in written[reader.seen.path]
    /\ reader.pc \in {"summary", "table"} =>
           \A p \in DOMAIN upload_statuses : Whole(p)
    /\ reader.pc = "summary" /\ reader.field = Len(SummaryFields) =>
           reader.stats = get_upload_summary_stats(upload_statuses)
    /\ status_lock = NoOwner /\ reader.pc # "clear" =>
           \A p \in DOMAIN upload_statuses : Whole(p)

\* C17 witness: the reader has built a row from a record that two updates
\* of two tasks have written, while the other task waits to update again
C17_Witness ==
    /\ reader.pc = "table"
    /\ reader.reads >= 1
    /\ reader.seen.path # 0
    /\ reader.seen.rec.status = FAILED
    /\ Cardinality(written[reader.seen.path]) >= 3
    /\ reader.stats.failed >= 1
    /\ \E t \in Tasks : writer[t].pc = "idle" /\ writer[t].count = 1


\* task t holds the guard lock and the status lock together
HoldsBoth(t) == upload_lock = t /\ status_lock = t

\* C18 as stated: no task ever holds the guard lock and the status lock at
\* the same time
C18_NeverNested == \A t \in Tasks : ~HoldsBoth(t)


\* task t is inside the upload call, polls the operation or sleeps in
\* backoff
Waiting(t) == pc[t] \in {"upload", "poll", "sleep"}

\* C19: a task inside the upload call, polling or sleeping holds neither
\* the guard lock nor the status lock; a lock is held only by a task in
\* the duplicate branch, whose own step is enabled or waits for the holder
\* of the status lock, whose step is enabled: no guard operation, status
\* update or summary ever waits for a task that is in a blocking wait
C19_NoLockAcrossWait ==
    /\ \A t \in Tasks : Waiting(t) => upload_lock # t /\ status_lock # t
    /\ \A h \in Tasks : status_lock = h =>
           pc[h] = "dup_write" /\ ENABLED DupReject(h)
    /\ \A h \in Tasks : upload_lock = h =>
           /\ pc[h] \in {"dup_status", "dup_write"}
           /\ \/ ENABLED DupLockStatus(h)
              \/ ENABLED DupReject(h)
              \/ status_lock \in Tasks \ {h}
    /\ (\E t \in Tasks : Waiting(t)) /\ upload_lock = NoOwner
         /\ status_lock = NoOwner =>
           \A u \in Tasks :
               /\ pc[u] = "precheck" => ENABLED Precheck(u)
               /\ pc[u] = "acquire" => ENABLED TryAcquire(u)
               /\ pc[u] = "mark" => ENABLED MarkAttempt(u)
               /\ pc[u] = "finally" => ENABLED Release(u)
               /\ pc[u] = "finished" /\ main_pc = "collect"
                    /\ u \notin collected => ENABLED Collect(u)

\* C19 witness: one task sleeps in backoff holding the key while the other
\* task, in the duplicate branch, holds both locks
C19_Witness ==
    \E t, u \in Tasks :
        /\ pc[t] = "sleep" /\ KeyOf(t) \in active_uploads
        /\ pc[u] = "dup_write" /\ upload_lock = u /\ status_lock = u


\* the clear-and-init step is over and no task has started to run
BatchInitialised ==
    /\ main_pc \in {"submit", "collect"}
    /\ \A t \in Tasks : pc[t] \in {"unsubmitted", "queued"}

\* C20: after the clear-and-init step and before any task runs, the paths
\* with a status record are exactly the submitted paths and every record
\* is Pending with attempt 0 (max_retries 0, empty message): no record of
\* an earlier batch is left
C20_BatchStartReinitialises ==
    BatchInitialised =>
        /\ DOMAIN upload_statuses = Range(file_paths)
        /\ \A p \in DOMAIN upload_statuses :
               /\ upload_statuses[p] = PendingRecord
               /\ upload_statuses[p].status = PENDING
               /\ upload_statuses[p].attempt = 0

\* C20 witness: the batch is initialised for a list that does not name the
\* path for which an earlier batch can have left a record, and all tasks
\* are submitted
C20_Witness ==
    /\ BatchInitialised
    /\ main_pc = "collect"
    /\ NumPaths \notin Range(file_paths)
    /\ DOMAIN upload_statuses = Range(file_paths)


\* tasks handed to the pool
Dispatched == {t \in Tasks : pc[t] # "unsubmitted"}

\* C21: the pool gets exactly one task per entry of the list; at most
\* max_workers tasks are executing at any instant; a task that starts to
\* execute was queued and finds fewer than max_workers tasks executing; a
\* queued task that cannot start is waiting for a full pool or for an older
\* queued task
C21_BoundedPool ==
    /\ [](Cardinality(Running) <= max_workers)
    /\ [](main_pc \in {"collect", "done"} =>
             /\ Dispatched = 1..Len(file_paths)
             /\ Cardinality(Dispatched) = Len(file_paths))
    /\ [][\A t \in Tasks :
             t \notin Running /\ t \in Running' =>
                 /\ pc[t] = "queued"
                 /\ Cardinality(Running) < max_workers]_vars
    /\ [](\A t \in Tasks :
             pc[t] = "queued" /\ ~ENABLED StartTask(t) =>
                 \/ Cardinality(Running) = max_workers
                 \/ \E u \in Tasks : u < t /\ pc[u] = "queued")

\* C21 witness: the pool has one worker, which executes the first task in
\* its upload call while the second task waits in the queue
C21_Witness ==
    /\ max_workers = 1
    /\ Len(file_paths) >= 2
    /\ pc[1] = "poll"
    /\ pc[2] = "queued"
    /\ main_pc = "collect"


\* C22: the delay computed after failed attempt a is
\* min(initial_delay * 2^(a-1), max_delay); it never exceeds max_delay, is
\* positive, and is not smaller than the delay computed after attempt a-1
C22_BackoffMonotoneCapped ==
    backoff.attempt >= 1 =>
        /\ backoff.delay <= backoff.max_delay
        /\ backoff.delay >= 1
        /\ backoff.previous <= backoff.delay
        /\ \/ backoff.delay = backoff.max_delay
           \/ backoff.delay
                = backoff.initial_delay * (2 ^ (backoff.attempt - 1))
        /\ backoff.attempt >= 2 /\ backoff.delay < backoff.max_delay =>
               backoff.delay = 2 * backoff.previous

\* C22 witness: with the configured delays the delay has doubled up to the
\* cap and stays there
C22_Witness ==
    /\ backoff.initial_delay = UPLOAD_RETRY_INITIAL_DELAY
    /\ backoff.max_delay = UPLOAD_RETRY_MAX_DELAY
    /\ backoff.attempt = 7
    /\ backoff.previous = UPLOAD_RETRY_MAX_DELAY
    /\ backoff.delay = UPLOAD_RETRY_MAX_DELAY


\* detect_duplicate_files has been called on the batch
Detected == dedup.pc \notin {"none", "start"}
\* the entries of the batch with hash h, in batch order
EntriesWith(h) == SelectSeq(dedup.files, LAMBDA p : FileHash(p) = h)
\* the groups that contain path p
GroupsOf(p) ==
    {g \in 1..Len(dedup.duplicates) : p \in Range(dedup.duplicates[g].files)}
Hashable(p) == FileHash(p) # NoHash
Shared(h) == Len(EntriesWith(h)) >= 2

\* C23: two hashable files of the batch are in one group iff their hashes
\* are equal and at least two entries of the batch have that hash; a file
\* whose hash no other entry has is in no group; no file is in two groups;
\* every group has at least 2 members, which are the entries of the batch
\* with the group's hash in batch order
C23_DuplicateGroups ==
    Detected =>
        /\ \A p, q \in Range(dedup.files) :
               Hashable(p) /\ Hashable(q) =>
                   ((GroupsOf(p) \cap GroupsOf(q) # {})
                      <=> (FileHash(p) = FileHash(q) /\ Shared(FileHash(p))))
        /\ \A p \in Range(dedup.files) :
               Hashable(p) /\ ~Shared(FileHash(p)) => GroupsOf(p) = {}
        /\ \A p \in Range(dedup.files) : Cardinality(GroupsOf(p)) <= 1
        /\ \A g \in 1..Len(dedup.duplicates) :
               /\ Len(dedup.duplicates[g].files) >= 2
               /\ dedup.duplicates[g].files
                    = EntriesWith(dedup.duplicates[g].hash)
        /\ \A g, k \in 1..Len(dedup.duplicates) :
               dedup.duplicates[g].hash = dedup.duplicates[k].hash => g = k

\* C23 witness: a batch of four hashable files with two groups of two
\* different files each, the batch mixing the two groups
C23_Witness ==
    /\ Detected
    /\ dedup.files = <<3, 1, 4, 2>>
    /\ Len(dedup.duplicates) = 2
    /\ dedup.duplicates[1].files = <<3, 4>>
    /\ dedup.duplicates[2].files = <<1, 2>>


\* number of entries of list s that are path x
CountIn(s, x) == Cardinality({i \in 1..Len(s) : s[i] = x})
\* get_deduplicated_files is about to return or has returned
Resolved == dedup.pc \in {"return", "returned"}
\* position of the first entry of the batch with hash h
FirstEntry(h) ==
    CHOOSE i \in 1..Len(dedup.files) :
        /\ FileHash(dedup.files[i]) = h
        /\ \A j \in 1..(i - 1) : FileHash(dedup.files[j]) # h

\* C24: without interaction the returned list holds, for every group, its
\* first member in batch order once and none of its other entries, and
\* holds every entry of the batch that is in no group; so its length is the
\* number of entries outside the groups plus the number of groups
C24_NonInteractiveKeepsFirst ==
    Resolved /\ ~dedup.interactive =>
        /\ \A x \in DedupPaths :
               CountIn(dedup.files_to_keep, x)
                 = (IF GroupsOf(x) = {} THEN CountIn(dedup.files, x) ELSE 0)
                   + Cardinality({g \in 1..Len(dedup.duplicates) :
                        dedup.files[FirstEntry(dedup.duplicates[g].hash)]
                          = x})
        /\ Len(dedup.files_to_keep)
             = Cardinality({i \in 1..Len(dedup.files) :
                               GroupsOf(dedup.files[i]) = {}})
               + Len(dedup.duplicates)
        /\ dedup.pc = "returned" => dedup.result = dedup.files_to_keep

\* C24 witness: three files, two of them with the same content: one group
\* of size 2, two files to upload, the first of the pair among them
C24_Witness ==
    /\ dedup.pc = "returned"
    /\ ~dedup.interactive
    /\ dedup.files = <<2, 6, 1>>
    /\ Len(dedup.duplicates) = 1
    /\ dedup.duplicates[1].files = <<2, 1>>
    /\ dedup.result = <<6, 2>>


\* the batch without the files that cannot be hashed
HashableFiles == SelectSeq(dedup.files, Hashable)

\* C25: a file that cannot be hashed is in no group; the groups are those
\* of the batch without such files; and every entry of such a file is in
\* the list get_deduplicated_files returns, in both modes
C25_UnhashableFileKept ==
    /\ Detected =>
           /\ \A p \in Range(dedup.files) : ~Hashable(p) => GroupsOf(p) = {}
           /\ detect_duplicate_files(dedup.files)
                = detect_duplicate_files(HashableFiles)
           /\ dedup.pc # "returned" =>
                  dedup.duplicates = detect_duplicate_files(HashableFiles)
    /\ Resolved =>
           \A p \in Range(dedup.files) :
               ~Hashable(p) =>
                   CountIn(dedup.files_to_keep, p) = CountIn(dedup.files, p)
    /\ dedup.pc = "returned" =>
           \A p \in Range(dedup.files) :
               ~Hashable(p) => CountIn(dedup.result, p) >= 1

\* C25 witness: a batch with a file that cannot be read between two files
\* of equal content: the pair is a group and the file is returned
C25_Witness ==
    /\ dedup.pc = "returned"
    /\ dedup.files = <<1, 5, 2>>
    /\ Len(dedup.duplicates) = 1
    /\ dedup.duplicates[1].files = <<1, 2>>
    /\ CountIn(dedup.result, 5) = 1


\* the answers that ask for all files, whatever their case
AllAnswers == {<<"a", "l", "l">>, <<"A", "L", "L">>, <<"A", "l", "l">>}
\* the number an answer is read as by a user who types a decimal number
\* with an optional sign; the other answers are no numbers
NumericAnswers ==
    { <<"1">>, <<"2">>, <<"3">>, <<"0">>, <<"5">>, <<"-", "1">>,
      <<"+", "2">>, <<" ", "2">>, <<"1", "2">>, <<"0", "2">> }
EnteredIndex(selection) ==
    CASE selection = <<"1">> -> 1
      [] selection = <<"2">> -> 2
      [] selection = <<"3">> -> 3
      [] selection = <<"0">> -> 0
      [] selection = <<"5">> -> 5
      [] selection = <<"-", "1">> -> 0 - 1
      [] selection = <<"+", "2">> -> 2
      [] selection = <<" ", "2">> -> 2
      [] selection = <<"1", "2">> -> 12
      [] selection = <<"0", "2">> -> 2

\* C26: for every group and every answer, the files kept of the group are
\* all its members when the answer is "all", the one member at the entered
\* index when the answer is a number from 1 to the size of the group, and
\* the first member alone for any other number and for any answer that is
\* no number; at least one member is kept, and every answer is accepted
C26_InteractiveSelection ==
    /\ \A g \in 1..Len(dedup.kept) :
           LET selection == dedup.selections[g]
               dup_files == dedup.duplicates[g].files
               kept == dedup.kept[g] IN
           /\ kept # <<>>
           /\ \A i \in 1..Len(kept) : kept[i] \in Range(dup_files)
           /\ IF selection \in AllAnswers THEN kept = dup_files
              ELSE IF selection \in NumericAnswers
                      /\ 1 <= EnteredIndex(selection)
                      /\ EnteredIndex(selection) <= Len(dup_files)
              THEN kept = <<dup_files[EnteredIndex(selection)]>>
              ELSE kept = <<dup_files[1]>>
    /\ dedup.pc = "prompt" =>
           \A selection \in Selections : ENABLED DdSelect(selection)
    /\ Resolved /\ dedup.interactive =>
           /\ Len(dedup.kept) = Len(dedup.duplicates)
           /\ \A x \in DedupPaths :
                  CountIn(dedup.files_to_keep, x)
                    = (IF GroupsOf(x) = {} THEN CountIn(dedup.files, x)
                       ELSE 0)
                      + Cardinality({<<g, i>> \in
                            (1..Len(dedup.kept)) \X (1..MaxBatch) :
                                i <= Len(dedup.kept[g])
                                  /\ dedup.kept[g][i] = x})

\* C26 witness: two groups; the answer for the first is out of range and
\* keeps its first member, the answer for the second names its second
\* member
C26_Witness ==
    /\ dedup.pc = "returned"
    /\ dedup.files = <<3, 1, 4, 2>>
    /\ dedup.selections = << <<"5">>, <<"2">> >>
    /\ dedup.result = <<3, 2>>


\* the messages wait_for_operation returns when the poll call raised
PollErrors == {PollError(e) : e \in CollaboratorErrors}

\* in this step the polling of task t has failed by a raised error
PollRaised(t) ==
    /\ pc[t] = "poll"
    /\ \/ pc'[t] = "finally" /\ ret'[t].message \in PollErrors
       \/ pc'[t] = "sleep" /\ last_error'[t] \in PollErrors

\* C27 as stated: when the poll call raises and attempts remain, the task
\* goes to the backoff of another attempt and returns nothing
C27_PollFailureRetried ==
    [][\A t \in Tasks :
          PollRaised(t) /\ attempt[t] < max_retries =>
              pc'[t] = "sleep" /\ ret'[t] = NoRet]_vars


\* in this step the polling of task t has run into its timeout
PollTimedOut(t) ==
    /\ pc[t] = "poll"
    /\ \/ pc'[t] = "finally" /\ ret'[t].message = OperationTimedOut
       \/ pc'[t] = "sleep" /\ last_error'[t] = OperationTimedOut

\* upload_with_retry of task t has ended by a timeout of the polling
TimedOut(t) ==
    /\ pc[t] \in {"finally", "finished"}
    /\ ret[t].kind = "value"
    /\ ret[t].message = OperationTimedOut

\* C28: the step in which the polling times out writes FAILED with the
\* timeout message into the record of the file and hands the failure to
\* the caller, without backoff, whatever the number of the attempt; after
\* that the task makes no upload call and sleeps in no backoff
C28_PollTimeoutFatal ==
    /\ [][\A t \in Tasks :
             PollTimedOut(t) =>
                 /\ pc'[t] = "finally"
                 /\ ret'[t] = [kind |-> "value", success |-> FALSE,
                               message |-> OperationTimedOut]
                 /\ upload_statuses'[PathOf(t)].status = FAILED
                 /\ upload_statuses'[PathOf(t)].message = OperationTimedOut
                 /\ sleeps'[t] = sleeps[t]
                 /\ calls'[t] = calls[t]]_vars
    /\ [][\A t \in Tasks :
             TimedOut(t) =>
                 /\ calls'[t] = calls[t]
                 /\ sleeps'[t] = sleeps[t]
                 /\ pc'[t] \in {"finally", "finished"}
                 /\ ret'[t] = ret[t]]_vars

\* C28 witness: the first attempt of an upload timed out, the upload has
\* ended after one upload call with all retries left, the record is FAILED
C28_Witness ==
    \E t \in Tasks :
        /\ pc[t] = "finished"
        /\ TimedOut(t)
        /\ calls[t] = 1 /\ sleeps[t] = 0 /\ attempt[t] = 0
        /\ attempt[t] < max_retries
        /\ upload_statuses[PathOf(t)].status = FAILED
        /\ future[t] = ResultDict(FALSE, PathOf(t), OperationTimedOut)


\* the upload call or the polling of task t is in progress
InCall(t) == pc[t] \in {"upload", "poll"}

\* C29 as stated: while the upload call or the polling of a task is in
\* progress, the record of its file is Uploading on the first attempt and
\* Retrying on a later attempt
C29_StatusMarkedDuringCall ==
    \A t \in Tasks :
        InCall(t) =>
            upload_statuses[PathOf(t)].status
              = (IF attempt[t] = 0 THEN UPLOADING ELSE RETRYING)

\* C29 for files that are named once in the batch
C29_MarkedWhenNotShared ==
    \A t \in Tasks :
        InCall(t) /\ ~SharedPath(PathOf(t)) =>
            /\ upload_statuses[PathOf(t)].status
                 = (IF attempt[t] = 0 THEN UPLOADING ELSE RETRYING)
            /\ upload_statuses[PathOf(t)].attempt = attempt[t]


\* C30: the handle a task polls is the one its latest upload call
\* returned, and that call belongs to the attempt in progress; every upload
\* call that returns gives a handle no earlier call of the task gave; the
\* number of upload calls is the number of attempts started
C30_FreshHandlePerAttempt ==
    /\ [](\A t \in Tasks :
             /\ pc[t] = "poll" =>
                    /\ operation[t] = <<t, calls[t]>>
                    /\ calls[t] = attempt[t] + 1
             /\ pc[t] \in {"mark", "upload", "sleep"} => calls[t] = attempt[t]
             /\ pc[t] \in {"finally", "finished"} /\ ret[t].kind = "value" =>
                    calls[t] = IF ret[t].message = FinalMessage(last_error[t])
                               THEN attempt[t]
                               ELSE IF calls[t] = 0 THEN 0
                               ELSE attempt[t] + 1
             /\ operation[t] # NoOperation =>
                    operation[t][1] = t /\ operation[t][2] <= calls[t])
    /\ [][\A t \in Tasks :
             pc[t] = "upload" /\ pc'[t] = "poll" =>
                 /\ operation'[t] # operation[t]
                 /\ operation'[t] = <<t, calls'[t]>>
                 /\ \A n \in 1..calls[t] : operation'[t] # <<t, n>>]_vars
    /\ [][\A t \in Tasks :
             pc[t] # "upload" => operation'[t] = operation[t]]_vars

\* C30 witness: the first attempt's operation ended with a terminated
\* session; the second attempt polls the handle of the second upload call
C30_Witness ==
    \E t \in Tasks :
        /\ pc[t] = "poll"
        /\ attempt[t] = 1
        /\ calls[t] = 2
        /\ last_error[t] = OperationFailed(ETerminated)
        /\ operation[t] = <<t, 2>>


\* C31: the duration slept after failed attempt a is the delay
\* d = min(initial_delay * 2^(a-1), max_delay) changed by at most a quarter
\* of d and then raised to the floor of 0.1 s: it is at least
\* max(0.1, 0.75 d), at most max(0.1, 1.25 d), and positive
C31_JitteredSleepBounds ==
    backoff.attempt >= 1 =>
        LET d == Min(backoff.initial_delay * (2 ^ (backoff.attempt - 1)),
                     backoff.max_delay) IN
        /\ backoff.delay = d
        /\ 4 * backoff.actual_delay >= Max(4 * SleepFloor, 3 * d)
        /\ 4 * backoff.actual_delay <= Max(4 * SleepFloor, 5 * d)
        /\ backoff.actual_delay > 0
        /\ backoff.actual_delay # SleepFloor =>
               /\ 4 * (backoff.actual_delay - d) <= d
               /\ 4 * (d - backoff.actual_delay) <= d

\* C31 witness: a delay of 0.1 s with a negative jitter: the sum is below
\* the floor and 0.1 s is slept
C31_Witness ==
    /\ backoff.attempt >= 1
    /\ backoff.delay = SleepFloor
    /\ backoff.jitter < 0
    /\ backoff.delay + backoff.jitter < SleepFloor
    /\ backoff.actual_delay = SleepFloor



\* C32 as stated: when the batch has returned, the record of every file
\* with a successful result is Completed and the record of every file with
\* a failed result is Failed, and the summary of the status tracker counts
\* as many completed and failed files as the two result lists hold
C32_ResultMatchesStatus ==
    main_pc = "done" =>
        /\ \A i \in 1..Len(successful) :
               upload_statuses[successful[i].file_path].status = COMPLETED
        /\ \A i \in 1..Len(failed) :
               upload_statuses[failed[i].file_path].status = FAILED
        /\ get_upload_summary_stats(upload_statuses).completed
             = Len(successful)
        /\ get_upload_summary_stats(upload_statuses).failed = Len(failed)

\* C32 for batches that name every file once
C32_MatchesWhenNotShared ==
    main_pc = "done" /\ (\A p \in Range(file_paths) : ~SharedPath(p)) =>
        /\ \A i \in 1..Len(successful) :
               upload_statuses[successful[i].file_path].status = COMPLETED
        /\ \A i \in 1..Len(failed) :
               upload_statuses[failed[i].file_path].status = FAILED
        /\ get_upload_summary_stats(upload_statuses).completed
             = Len(successful)
        /\ get_upload_summary_stats(upload_statuses).failed = Len(failed)



\* task t enters or leaves the part of upload_with_retry that holds the key
Acquires(t) == ~Holds(t) /\ Holds(t)'
Releases(t) == Holds(t) /\ ~Holds(t)'

\* C33: a task takes its key once, before its first attempt, and the key
\* stays in the active set over every attempt and every backoff sleep until
\* the task leaves upload_with_retry; a request for the same key that is
\* decided while the holder sleeps in backoff is refused as already in
\* progress
C33_GuardHeldAcrossBackoff ==
    /\ [](\A t \in Tasks : Holds(t) => KeyOf(t) \in active_uploads)
    /\ [][\A t \in Tasks :
             /\ Acquires(t) =>
                    /\ pc[t] = "acquire"
                    /\ attempt[t] = 0 /\ calls[t] = 0 /\ sleeps[t] = 0
                    /\ KeyOf(t) \notin active_uploads
                    /\ KeyOf(t) \in active_uploads'
             /\ Releases(t) =>
                    pc[t] = "finally" /\ pc'[t] = "finished"
             /\ Holds(t) /\ Holds(t)' => KeyOf(t) \in active_uploads'
             /\ pc[t] = "sleep" \/ pc'[t] = "sleep" =>
                    KeyOf(t) \in active_uploads']_vars
    /\ [][\A t, u \in Tasks :
             ( /\ t # u
               /\ KeyOf(t) = KeyOf(u)
               /\ pc[t] = "sleep"
               /\ pc'[u] # pc[u] ) =>
                 /\ pc[u] = "precheck" =>
                        /\ pc'[u] = "finished"
                        /\ future'[u]
                             = ResultDict(FALSE, PathOf(u), PrecheckMessage)
                 /\ pc[u] = "acquire" => pc'[u] = "dup_status"
                 /\ pc[u] = "dup_write" =>
                        /\ pc'[u] = "finished"
                        /\ future'[u]
                             = ResultDict(FALSE, PathOf(u), DuplicateMessage)
                 /\ pc'[t] = "sleep"
                 /\ calls'[u] = 0]_vars

\* C33 witness: the holder sleeps in its second backoff, the other task of
\* the same path has been refused by the pre-check
C33_Witness ==
    \E t, u \in Tasks :
        /\ t # u
        /\ KeyOf(t) = KeyOf(u)
        /\ pc[t] = "sleep"
        /\ sleeps[t] = 2
        /\ KeyOf(t) \in active_uploads
        /\ pc[u] = "finished"
        /\ future[u] = ResultDict(FALSE, PathOf(u), PrecheckMessage)



\* task t has taken its key: it holds it, or has left upload_with_retry
\* after holding it
Acquired(t) ==
    \/ Holds(t)
    \/ pc[t] = "finished" /\ ~Rejected(t) /\ ~Raised(future[t])

\* C34: a task that has taken its key is never refused and goes on to the
\* upload call; a refused task was refused in favour of another task of
\* the same key that has taken it, so the tasks of one key are never all
\* refused; the step that refuses a task leaves the active set as it is,
\* and a key leaves the active set only by the release of the task that
\* took it
C34_FirstAcquirerProceeds ==
    /\ [](\A t \in Tasks :
             /\ Acquired(t) => ~Rejected(t)
             /\ Rejected(t) =>
                    /\ calls[t] = 0
                    /\ \E u \in Tasks :
                           u # t /\ KeyOf(u) = KeyOf(t) /\ Acquired(u)
             /\ pc[t] = "finished" /\ Acquired(t) => calls[t] >= 1
             /\ pc[t] = "mark" /\ status_lock = NoOwner =>
                    ENABLED MarkAttempt(t)
             /\ pc[t] = "upload" => ENABLED UploadReturns(t))
    /\ [](\A p \in Range(file_paths) :
             (\A t \in Tasks : PathOf(t) = p => pc[t] = "finished") =>
                 \E t \in Tasks : PathOf(t) = p /\ ~Rejected(t))
    /\ [][\A t \in Tasks :
             /\ ~Rejected(t) /\ Rejected(t)' =>
                    active_uploads' = active_uploads
             /\ Acquired(t) => Acquired(t)'
             /\ KeyOf(t) \in active_uploads
                  /\ KeyOf(t) \notin active_uploads' =>
                    \E u \in Tasks :
                        /\ KeyOf(u) = KeyOf(t)
                        /\ pc[u] = "finally" /\ pc'[u] = "finished"
                        /\ ~Rejected(u)']_vars

\* C34 witness: two tasks of one path passed the pre-check together; one
\* took the key and its upload has succeeded, the other was refused by the
\* duplicate branch of upload_with_retry; the key is free again
C34_Witness ==
    \E t, u \in Tasks :
        /\ t # u
        /\ KeyOf(t) = KeyOf(u)
        /\ pc[t] = "finished" /\ future[t].success /\ calls[t] >= 1
        /\ pc[u] = "finished"
        /\ future[u] = ResultDict(FALSE, PathOf(u), DuplicateMessage)
        /\ active_uploads = {}



\* C35: when upload_multiple_files has returned, every status record is
\* Completed or Failed, none is Pending, Uploading or Retrying: the summary
\* has in_progress = 0 and completed + failed = total; the same holds as
\* soon as every task of the batch has ended
C35_NoRecordLeftInProgress ==
    (main_pc = "done" \/ \A t \in Tasks : pc[t] = "finished") =>
        LET stats == get_upload_summary_stats(upload_statuses) IN
        /\ \A p \in DOMAIN upload_statuses :
               upload_statuses[p].status \in {COMPLETED, FAILED}
        /\ stats.in_progress = 0
        /\ stats.completed + stats.failed = stats.total
        /\ stats.total = Cardinality(Range(file_paths))

\* C35 witness: the batch has returned for two files; one upload succeeded,
\* the other used up its retries: one record Completed, one Failed
C35_Witness ==
    /\ main_pc = "done"
    /\ Len(file_paths) >= 2
    /\ PathOf(1) # PathOf(2)
    /\ upload_statuses[PathOf(1)].status = COMPLETED
    /\ upload_statuses[PathOf(2)].status = FAILED
    /\ calls[2] = max_retries + 1
    /\ sleeps[2] = max_retries
    /\ get_upload_summary_stats(upload_statuses)
         = [total |-> 2, completed |-> 1, failed |-> 1, in_progress |-> 0]



\* threads that own a lock
Threads == Tasks \cup {MainThread}

\* the next step of the thread that owns the status lock can be taken
StatusOwnerRuns ==
    /\ status_lock = MainThread => ENABLED DisplayLeave
    /\ \A h \in Tasks : status_lock = h => ENABLED DupReject(h)

\* C36: the locks are taken in one order: a thread takes the status lock
\* while it owns the guard lock, never the guard lock while it owns the
\* status lock; the owner of the status lock never waits for a lock, the
\* owner of the guard lock waits at most for the status lock; so in every
\* state reached by the tasks and the display reader some thread that owns
\* a lock can take its next step, and until the batch has returned some
\* step is possible
C36_DeadlockFree ==
    /\ [][\A h \in Threads :
             upload_lock # h /\ upload_lock' = h => status_lock # h]_vars
    /\ [](upload_lock # MainThread)
    /\ [](StatusOwnerRuns)
    /\ [](\A h \in Tasks : upload_lock = h =>
             \/ ENABLED DupLockStatus(h)
             \/ ENABLED DupReject(h)
             \/ status_lock \in Threads \ {h} /\ StatusOwnerRuns)
    /\ [](upload_lock # NoOwner \/ status_lock # NoOwner =>
             \/ ENABLED DisplayLeave
             \/ \E h \in Tasks : ENABLED DupLockStatus(h)
             \/ \E h \in Tasks : ENABLED DupReject(h))
    /\ [](main_pc # "done" => ENABLED NextLocks)

\* C36 witness: after the first future was collected the main thread is
\* inside a status function and owns the status lock; a refused task owns
\* the guard lock and waits for the status lock; another task waits for the
\* guard lock to release its key
C36_Witness ==
    \E t, u \in Tasks :
        /\ reader = InDisplay
        /\ collected # {}
        /\ status_lock = MainThread
        /\ upload_lock = u
        /\ pc[u] = "dup_status"
        /\ pc[t] = "finally"



\* the batch is initialised and the tracker not yet cleared for the next
BatchTracked == reader.pc = "idle"

\* C37: a call of update_upload_status for a path without record changes
\* nothing; a call for a path with a record replaces that record and leaves
\* the other records as they are; no call adds or removes a key. So from
\* the end of the init step to the next clear the keys are the paths of
\* the batch and the total of the summary is the number of distinct paths
C37_UpdateCreatesNoRecord ==
    /\ [][\A p \in Paths : \A u \in StatusUpdates :
             TrUpdate(p, u) =>
                 /\ DOMAIN upload_statuses' = DOMAIN upload_statuses
                 /\ \A q \in DOMAIN upload_statuses :
                        q # p => upload_statuses'[q] = upload_statuses[q]
                 /\ p \notin DOMAIN upload_statuses =>
                        upload_statuses' = upload_statuses
                 /\ p \in DOMAIN upload_statuses =>
                        upload_statuses'[p] = u]_vars
    /\ [](BatchTracked =>
             /\ DOMAIN upload_statuses = Range(file_paths)
             /\ get_upload_summary_stats(upload_statuses).total
                  = Cardinality(Range(file_paths)))
    /\ [][BatchTracked /\ BatchTracked' =>
             DOMAIN upload_statuses' = DOMAIN upload_statuses]_vars

\* C37 witness: the batch names one path; updates were handed over for the
\* other path, which has no record, and for the path of the batch, whose
\* record is Failed; the summary counts one record
C37_Witness ==
    /\ BatchTracked
    /\ file_paths = [t \in 1..MaxFiles |-> 1]
    /\ written[NumPaths] # {}
    /\ NumPaths \notin DOMAIN upload_statuses
    /\ upload_statuses[1].status = FAILED
    /\ get_upload_summary_stats(upload_statuses).total = 1



\* the text of a transient failure: it contains one of the retryable
\* patterns, in any case
Transient(e) ==
    \E err \in RETRYABLE_ERROR_PATTERNS : Contains(Lower(e), err)

\* C38: a task sleeps in backoff only after a transient failure with an
\* attempt left, and the sleep is followed by the next attempt: while a
\* task sleeps or is about to make an upload call it has slept as often as
\* it has made upload calls, afterwards once less; so an upload that has
\* ended after k attempts, by success, exhaustion or a fatal failure, has
\* slept k - 1 times, none of them after its last attempt, and a refused
\* upload has not slept
C38_SleepThenAttempt ==
    /\ [](\A t \in Tasks :
             /\ pc[t] = "sleep" =>
                    /\ 1 <= attempt[t] /\ attempt[t] <= max_retries
                    /\ Transient(last_error[t])
                    /\ sleeps[t] = calls[t]
                    /\ ENABLED WakeUp(t)
             /\ pc[t] \in {"mark", "upload"} => sleeps[t] = calls[t]
             /\ pc[t] = "poll" => sleeps[t] = calls[t] - 1
             /\ pc[t] \in {"finally", "finished"} =>
                    sleeps[t] = IF calls[t] = 0 THEN 0 ELSE calls[t] - 1
             /\ Rejected(t) => sleeps[t] = 0 /\ calls[t] = 0)
    /\ [][\A t \in Tasks :
             /\ pc[t] = "sleep" /\ pc'[t] # "sleep" => pc'[t] = "mark"
             /\ pc[t] = "mark" /\ pc'[t] # "mark" => pc'[t] = "upload"
             /\ pc[t] = "upload" /\ pc'[t] # "upload" =>
                    calls'[t] = calls[t] + 1
             /\ sleeps'[t] # sleeps[t] =>
                    /\ sleeps'[t] = sleeps[t] + 1
                    /\ pc[t] \in {"upload", "poll"}
                    /\ pc'[t] = "sleep"
                    /\ attempt'[t] <= max_retries]_vars

\* C38 witness: one upload has succeeded on its third attempt after two
\* sleeps, the other has used up its max_retries + 1 attempts with
\* max_retries sleeps
C38_Witness ==
    \E t, u \in Tasks :
        /\ pc[t] = "finished" /\ future[t].success
        /\ calls[t] = 3 /\ sleeps[t] = 2
        /\ pc[u] = "finished" /\ ~future[u].success
        /\ calls[u] = max_retries + 1 /\ sleeps[u] = max_retries



\* how far task t is from the end of upload_file_to_store: the attempts
\* left weigh more than the position inside one pass of the loop
Position(t) ==
    CASE pc[t] = "unsubmitted" -> 4
      [] pc[t] = "queued" -> 3
      [] pc[t] = "precheck" -> 2
      [] pc[t] = "acquire" -> 1
      [] pc[t] = "sleep" -> 3
      [] pc[t] = "mark" -> 2
      [] pc[t] = "upload" -> 1
      [] pc[t] = "poll" -> 0
      [] OTHER -> 0
Stage(t) ==
    CASE pc[t] \in {"unsubmitted", "queued", "precheck", "acquire"} -> 5
      [] pc[t] \in {"mark", "upload", "poll", "sleep"} -> 4
      [] pc[t] = "dup_status" -> 3
      [] pc[t] = "dup_write" -> 2
      [] pc[t] = "finally" -> 1
      [] OTHER -> 0
AttemptsLeft(t) == max_retries + 1 - attempt[t]
Rank(t) == <<Stage(t), AttemptsLeft(t), Position(t)>>
Less(r, s) ==
    \/ r[1] < s[1]
    \/ r[1] = s[1] /\ r[2] < s[2]
    \/ r[1] = s[1] /\ r[2] = s[2] /\ r[3] < s[3]

\* C39: every step of a task brings it nearer to its end: a retry raises
\* the attempt counter by one, the counter never exceeds max_retries + 1,
\* and inside one pass of the loop the task only moves forward; so
\* upload_with_retry ends after finitely many steps whatever the outcomes
\* of the upload calls and of the polling are. When every thread that can
\* take a step is scheduled in the end and every call to the collaborator
\* returns or raises, every task ends and upload_multiple_files returns
\* its summary
C39_Terminates ==
    /\ [][\A t \in Tasks :
             /\ pc'[t] # pc[t] => Less(Rank(t)', Rank(t))
             /\ pc[t] \in {"upload", "poll"} /\ pc'[t] = "sleep" =>
                    attempt'[t] = attempt[t] + 1
             /\ attempt'[t] >= attempt[t]]_vars
    /\ [](\A t \in Tasks :
             /\ attempt[t] <= max_retries + 1
             /\ AttemptsLeft(t) >= 0
             /\ pc[t] \in {"mark", "upload", "poll", "sleep"} =>
                    attempt[t] <= max_retries)
    /\ \A t \in 1..MaxFiles : <>(pc[t] = "finished")
    /\ <>(main_pc = "done")
    /\ <>[](main_pc = "done" /\ active_uploads = {})

\* C39 witness: the batch has returned after an upload that used every
\* attempt and an upload that succeeded on a retry
C39_Witness ==
    /\ main_pc = "done"
    /\ \E t \in Tasks : calls[t] = max_retries + 1 /\ ~future[t].success
    /\ \E t \in Tasks : sleeps[t] >= 1 /\ future[t].success
    /\ active_uploads = {}



\* the entries of the batch that are in no group, in batch order
GroupFree == SelectSeq(dedup.files, LAMBDA p : GroupsOf(p) = {})

\* C40: the list get_deduplicated_files returns without interaction holds
\* no two hashable files of equal hash; it is the entries of the batch
\* that are in no group, in batch order, followed by one member of every
\* group in the order of the groups; detect_duplicate_files finds no group
\* in it, and get_deduplicated_files called on it returns it unchanged
\* together with no duplicate groups
C40_ResolutionIdempotent ==
    /\ Resolved /\ ~dedup.interactive =>
           LET keep == dedup.files_to_keep
               n == Len(GroupFree) IN
           /\ \A i, j \in 1..Len(keep) :
                  (i # j /\ Hashable(keep[i]) /\ Hashable(keep[j]))
                      => FileHash(keep[i]) # FileHash(keep[j])
           /\ Len(keep) = n + Len(dedup.duplicates)
           /\ SubSeq(keep, 1, n) = GroupFree
           /\ \A g \in 1..Len(dedup.duplicates) :
                  keep[n + g] \in Range(dedup.duplicates[g].files)
           /\ detect_duplicate_files(keep) = <<>>
    /\ dedup.pc # "none" /\ dedup.round = 2 =>
           /\ dedup.files = dedup.first
           /\ dedup.pc \in {"start", "returned"}
           /\ dedup.pc = "returned" =>
                  /\ dedup.result = dedup.first
                  /\ dedup.duplicates = <<>>

\* C40 witness: a batch of two files of equal content and two entries of a
\* file that cannot be read; the first call returned the two entries and
\* the first of the pair, the second call returned the same list
C40_Witness ==
    /\ dedup.pc = "returned"
    /\ dedup.round = 2
    /\ dedup.batch = <<1, 5, 2, 5>>
    /\ dedup.first = <<5, 5, 1>>
    /\ dedup.result = <<5, 5, 1>>
    /\ dedup.duplicates = <<>>

=============================================================================
